---- MODULE Spec2Model ----
(***************************************************************************)
(* Model of the alert engine (model/alerts.py), the correlation helpers    *)
(* (model/correlations.py) and the profiling pipeline (model/describe.py)  *)
(* of ydata-profiling.                                                     *)
(*                                                                         *)
(* Conventions                                                             *)
(*  - A Python float or int is a record [nan, v]: F(k) is the number       *)
(*    k/1000 (fixed point, three decimals), NaN is numpy.nan.  Comparisons *)
(*    with NaN are false, as in IEEE-754.                                  *)
(*  - A Python dict is a sequence of <<key, value>> pairs with distinct    *)
(*    keys, in insertion order (dicts iterate in insertion order).         *)
(*  - A function that can raise returns [exc, val]: exc = None when it     *)
(*    returns val, otherwise the exception that escapes.                   *)
(*  - A column summary is a TLA+ function whose DOMAIN is the set of keys  *)
(*    present in the summary dict.                                         *)
(***************************************************************************)
EXTENDS Integers, Sequences, FiniteSets, TLC

VARIABLES
    pc,                 \* position of the running operation
    config,             \* Settings: thresholds and per-method correlation settings
    table_stats,        \* table-level statistics dict
    series_description, \* dict column -> column summary
    correlations,       \* dict method -> correlation matrix
    correlated_mapping, \* the dict returned by perform_check_correlation
    alerts,             \* the list returned by the operation under check
    error,              \* the exception that escaped the operation, or None
    df,                 \* describe: the table to profile
    sample,             \* describe: the user-supplied sample, or None
    env,                \* describe: what the collaborators outside this code do
    pbar,               \* describe: the progress bar
    supported_columns,  \* describe: columns whose type is not Unsupported
    interval_columns,   \* describe: columns of type Numeric or TimeSeries
    cursor,             \* describe: position in the loop of the current stage
    scatter_matrix,     \* describe: dict x -> dict y -> plot
    missing,            \* describe: dict diagram name -> diagram
    samples,            \* describe: what get_sample / get_custom_sample returned
    duplicates,         \* describe: the duplicate rows
    tsindex_description,\* describe: the time-index analysis, or None
    package,            \* describe: package metadata
    base_description,   \* describe: the BaseDescription returned
    warnings,           \* warnings issued so far
    trace,              \* describe: the stages entered so far, in order
    previous            \* what the previous call of the operation did, or None

describe_vars == <<df, sample, env, pbar, supported_columns, interval_columns, cursor,
                   scatter_matrix, missing, samples, duplicates, tsindex_description,
                   package, base_description, warnings, trace, previous>>

vars == <<pc, config, table_stats, series_description, correlations,
          correlated_mapping, alerts, error, describe_vars>>

None == "None"

\* Python's None where the other values are records, dicts or lists
NoValue == [none |-> TRUE]

\* describe is not running: its locals hold nothing
NotProfiling ==
    /\ df = NoValue /\ sample = NoValue /\ env = NoValue /\ pbar = NoValue
    /\ supported_columns = <<>> /\ interval_columns = <<>> /\ cursor = 0
    /\ scatter_matrix = <<>> /\ missing = <<>> /\ samples = NoValue
    /\ duplicates = NoValue /\ tsindex_description = NoValue
    /\ package = NoValue /\ base_description = NoValue
    /\ warnings = <<>> /\ trace = <<>> /\ previous = NoValue

(***************************************************************************)
(* Numbers                                                                 *)
(***************************************************************************)
F(k) == [nan |-> FALSE, v |-> k]

NaN == [nan |-> TRUE, v |-> 0]

isna(x) == x.nan

Abs(x) == IF x.nan THEN x ELSE F(IF x.v < 0 THEN 0 - x.v ELSE x.v)

Ge(x, y) == ~x.nan /\ ~y.nan /\ x.v >= y.v

Gt(x, y) == ~x.nan /\ ~y.nan /\ x.v > y.v

Lt(x, y) == ~x.nan /\ ~y.nan /\ x.v < y.v

Eq(x, y) == ~x.nan /\ ~y.nan /\ x.v = y.v

(***************************************************************************)
(* Python dicts                                                            *)
(***************************************************************************)
Keys(d) == [i \in 1..Len(d) |-> d[i][1]]

KeySet(d) == {d[i][1] : i \in 1..Len(d)}

HasKey(d, k) == \E i \in 1..Len(d) : d[i][1] = k

Lookup(d, k) == d[CHOOSE i \in 1..Len(d) : d[i][1] = k][2]

\* d[k] = v: an existing key keeps its position, a new key goes last
DictSet(d, k, v) ==
    IF HasKey(d, k)
    THEN [i \in 1..Len(d) |-> IF d[i][1] = k THEN <<k, v>> ELSE d[i]]
    ELSE Append(d, <<k, v>>)

Range(s) == {s[i] : i \in 1..Len(s)}

Ok(v) == [exc |-> None, val |-> v]

Raise(e) == [exc |-> e, val |-> <<>>]

(***************************************************************************)
(* correlations.py: perform_check_correlation                              *)
(* A matrix is [cols, values]: cols the column labels in order, values the *)
(* square array of numbers.                                                *)
(***************************************************************************)
Size(matrix) == Len(matrix.cols)

\* bool_index = abs(correlation_matrix.values) >= threshold
abs_ge(matrix, threshold) ==
    [i \in 1..Size(matrix) |->
        [j \in 1..Size(matrix) |-> Ge(Abs(matrix.values[i][j]), threshold)]]

\* fill_diagonal left out: the diagonal keeps the result of the comparison
fill_diagonal_skipped(b) == b

\* np.fill_diagonal(bool_index, False)
fill_diagonal(b) ==
    [i \in DOMAIN b |-> [j \in DOMAIN b[i] |-> IF i = j THEN FALSE ELSE b[i][j]]]

\* cols[bool_index[i]].values.tolist()
masked(cols, row) ==
    LET idx == SelectSeq([j \in 1..Len(cols) |-> j], LAMBDA j : row[j])
    IN  [k \in 1..Len(idx) |-> cols[idx[k]]]

perform_check_correlation_every_row(correlation_matrix, threshold) ==
    LET cols == correlation_matrix.cols
        bool_index == fill_diagonal(abs_ge(correlation_matrix, threshold))
    IN  [k \in 1..Len(cols) |-> <<cols[k], masked(cols, bool_index[k])>>]

perform_check_correlation(correlation_matrix, threshold) ==
    LET cols == correlation_matrix.cols
        bool_index == fill_diagonal(abs_ge(correlation_matrix, threshold))
        rows == SelectSeq([i \in 1..Len(cols) |-> i],
                          LAMBDA i : \E j \in 1..Len(cols) : bool_index[i][j])
    IN  [k \in 1..Len(rows) |-> <<cols[rows[k]], masked(cols, bool_index[rows[k]])>>]

(***************************************************************************)
(* alerts.py: Alert and check_correlation_alerts                           *)
(* An alert is [alert_type, column_name, values]; the fields and is_empty  *)
(* attributes only drive rendering and are left out.                       *)
(***************************************************************************)
Alert(alert_type, values, column_name) ==
    [alert_type |-> alert_type, column_name |-> column_name, values |-> values]

HighCorrelationAlert(column_name, values) ==
    Alert("HIGH_CORRELATION", values, column_name)

\* every (column, partners) pair of every method kept as an entry of its own
consolidate_mapping_append(acc, mapping) == acc \o mapping

\* lines 677-679: for col, fields in correlated_mapping.items().  The set
\* built by set(fields) is a temporary: its update() changes nothing that is
\* kept, and the assignment stores this method's own list for col.
RECURSIVE consolidate_mapping(_, _)
consolidate_mapping(acc, mapping) ==
    IF mapping = <<>>
    THEN acc
    ELSE LET col == Head(mapping)[1]
             fields == Head(mapping)[2]
         IN  consolidate_mapping(DictSet(acc, col, fields), Tail(mapping))

RECURSIVE consolidate_every_method(_, _, _)
consolidate_every_method(cfg, acc, corrs) ==
    IF corrs = <<>>
    THEN Ok(acc)
    ELSE LET corr == Head(corrs)[1]
             matrix == Head(corrs)[2]
         IN  IF corr \notin DOMAIN cfg.correlations
             THEN Raise("KeyError")
             ELSE consolidate_every_method(cfg,
                      consolidate_mapping(acc,
                          perform_check_correlation(matrix,
                              cfg.correlations[corr].threshold)),
                      Tail(corrs))

\* lines 672-679: for corr, matrix in correlations.items()
RECURSIVE consolidate(_, _, _)
consolidate(cfg, acc, corrs) ==
    IF corrs = <<>>
    THEN Ok(acc)
    ELSE LET corr == Head(corrs)[1]
             matrix == Head(corrs)[2]
         IN  IF corr \notin DOMAIN cfg.correlations
             THEN Raise("KeyError")
             ELSE IF cfg.correlations[corr].warn_high_correlations
                  THEN consolidate(cfg,
                           consolidate_mapping(acc,
                               perform_check_correlation(matrix,
                                   cfg.correlations[corr].threshold)),
                           Tail(corrs))
                  ELSE consolidate(cfg, acc, Tail(corrs))

check_correlation_alerts(cfg, corrs) ==
    LET r == consolidate(cfg, <<>>, corrs)
    IN  IF r.exc # None
        THEN r
        ELSE Ok([k \in 1..Len(r.val) |->
                    HighCorrelationAlert(r.val[k][1],
                        [corr |-> "overall", fields |-> r.val[k][2]])])

(***************************************************************************)
(* alerts.py: the alert rules                                              *)
(***************************************************************************)
\* AlertType (lines 31-86): the member names, and each name's characters
AlertTypes ==
    {"CONSTANT", "ZEROS", "HIGH_CORRELATION", "HIGH_CARDINALITY",
     "UNSUPPORTED", "DUPLICATES", "SKEWED", "IMBALANCE",
     "MISSING", "INFINITE", "TYPE_DATE", "UNIQUE",
     "CONSTANT_LENGTH", "REJECTED", "UNIFORM", "NON_STATIONARY",
     "SEASONAL", "EMPTY"}

NameChars(t) ==
    CASE t = "CONSTANT" ->
           <<"C", "O", "N", "S", "T", "A", "N", "T">>
      [] t = "ZEROS" ->
           <<"Z", "E", "R", "O", "S">>
      [] t = "HIGH_CORRELATION" ->
           <<"H", "I", "G", "H", "_", "C", "O", "R", "R", "E", "L", "A", "T", "I", "O", "N">>
      [] t = "HIGH_CARDINALITY" ->
           <<"H", "I", "G", "H", "_", "C", "A", "R", "D", "I", "N", "A", "L", "I", "T", "Y">>
      [] t = "UNSUPPORTED" ->
           <<"U", "N", "S", "U", "P", "P", "O", "R", "T", "E", "D">>
      [] t = "DUPLICATES" ->
           <<"D", "U", "P", "L", "I", "C", "A", "T", "E", "S">>
      [] t = "SKEWED" ->
           <<"S", "K", "E", "W", "E", "D">>
      [] t = "IMBALANCE" ->
           <<"I", "M", "B", "A", "L", "A", "N", "C", "E">>
      [] t = "MISSING" ->
           <<"M", "I", "S", "S", "I", "N", "G">>
      [] t = "INFINITE" ->
           <<"I", "N", "F", "I", "N", "I", "T", "E">>
      [] t = "TYPE_DATE" ->
           <<"T", "Y", "P", "E", "_", "D", "A", "T", "E">>
      [] t = "UNIQUE" ->
           <<"U", "N", "I", "Q", "U", "E">>
      [] t = "CONSTANT_LENGTH" ->
           <<"C", "O", "N", "S", "T", "A", "N", "T", "_", "L", "E", "N", "G", "T", "H">>
      [] t = "REJECTED" ->
           <<"R", "E", "J", "E", "C", "T", "E", "D">>
      [] t = "UNIFORM" ->
           <<"U", "N", "I", "F", "O", "R", "M">>
      [] t = "NON_STATIONARY" ->
           <<"N", "O", "N", "_", "S", "T", "A", "T", "I", "O", "N", "A", "R", "Y">>
      [] t = "SEASONAL" ->
           <<"S", "E", "A", "S", "O", "N", "A", "L">>
      [] t = "EMPTY" ->
           <<"E", "M", "P", "T", "Y">>

\* Characters in ASCII order: '.' < 'A'..'Z' < '_' < 'a'..'z'
Alphabet ==
    <<".", "A", "B", "C", "D", "E", "F", "G", "H", "I", "J", "K", "L", "M",
      "N", "O", "P", "Q", "R", "S", "T", "U", "V", "W", "X", "Y", "Z", "_",
      "a", "b", "c", "d", "e", "f", "g", "h", "i", "j", "k", "l", "m",
      "n", "o", "p", "q", "r", "s", "t", "u", "v", "w", "x", "y", "z">>

Ord(c) == CHOOSE i \in 1..Len(Alphabet) : Alphabet[i] = c

\* str(alert.alert_type), e.g. "AlertType.CONSTANT"
str_alert_type(t) ==
    <<"A", "l", "e", "r", "t", "T", "y", "p", "e", ".">> \o NameChars(t)

\* Python's str comparison a < b: lexicographic by code point, a proper
\* prefix is smaller
RECURSIVE str_lt(_, _)
str_lt(a, b) ==
    IF b = <<>> THEN FALSE
    ELSE IF a = <<>> THEN TRUE
    ELSE IF Ord(Head(a)) # Ord(Head(b)) THEN Ord(Head(a)) < Ord(Head(b))
    ELSE str_lt(Tail(a), Tail(b))

EmptyDict == <<>>

\* N(k): the integer k as a number
N(k) == F(k * 1000)

\* summary.get(key, default)
Get(summary, key, default) ==
    IF key \in DOMAIN summary THEN summary[key] ELSE default

\* a list holding the alert when the condition holds
When(cond, alert) == IF cond THEN <<alert>> ELSE <<>>

\* lines 703-704
alert_value(value) == ~isna(value) /\ Gt(value, F(10))

\* lines 707-708
skewness_alert(v, threshold) ==
    ~isna(v) /\ (Lt(v, F((0 - 1) * threshold.v)) \/ Gt(v, threshold))

check_table_alerts_exclusive(table) ==
    IF "n" \notin DOMAIN table
    THEN Raise("KeyError")
    ELSE Ok(IF Eq(table["n"], N(0))
            THEN <<Alert("EMPTY", table, None)>>
            ELSE When(alert_value(Get(table, "n_duplicates", NaN)),
                      Alert("DUPLICATES", table, None)))

\* lines 506-528
check_table_alerts(table) ==
    IF "n" \notin DOMAIN table
    THEN Raise("KeyError")
    ELSE Ok(When(alert_value(Get(table, "n_duplicates", NaN)),
                 Alert("DUPLICATES", table, None))
            \o When(Eq(table["n"], N(0)), Alert("EMPTY", table, None)))

\* lines 531-552
numeric_alerts(cfg, summary) ==
    IF ~({"skewness", "p_infinite", "p_zeros"} \subseteq DOMAIN summary)
    THEN Raise("KeyError")
    ELSE Ok(When(skewness_alert(summary["skewness"], cfg.vars.num.skewness_threshold),
                 Alert("SKEWED", summary, None))
            \o When(alert_value(summary["p_infinite"]),
                    Alert("INFINITE", summary, None))
            \o When(alert_value(summary["p_zeros"]),
                    Alert("ZEROS", summary, None))
            \o When("chi_squared" \in DOMAIN summary
                        /\ Gt(summary["chi_squared"].pvalue,
                              cfg.vars.num.chi_squared_threshold),
                    Alert("UNIFORM", EmptyDict, None)))

\* lines 555-564
timeseries_alerts(cfg, summary) ==
    LET r == numeric_alerts(cfg, summary)
    IN  IF r.exc # None THEN r
        ELSE IF ~({"stationary", "seasonal"} \subseteq DOMAIN summary)
        THEN Raise("KeyError")
        ELSE Ok(r.val
                \o When(~summary["stationary"],
                        Alert("NON_STATIONARY", EmptyDict, None))
                \o When(summary["seasonal"],
                        Alert("SEASONAL", EmptyDict, None)))

\* lines 567-593
categorical_alerts(cfg, summary) ==
    IF "composition" \in DOMAIN summary
          /\ ~({"min_length", "max_length"} \subseteq DOMAIN summary)
    THEN Raise("KeyError")
    ELSE Ok(When(Gt(Get(summary, "n_distinct", NaN), cfg.vars.cat.cardinality_threshold),
                 Alert("HIGH_CARDINALITY", summary, None))
            \o When("chi_squared" \in DOMAIN summary
                        /\ Gt(summary["chi_squared"].pvalue,
                              cfg.vars.cat.chi_squared_threshold),
                    Alert("UNIFORM", EmptyDict, None))
            \o When(Get(summary, "date_warning", FALSE),
                    Alert("TYPE_DATE", EmptyDict, None))
            \o When("composition" \in DOMAIN summary
                        /\ Eq(summary["min_length"], summary["max_length"]),
                    Alert("CONSTANT_LENGTH", EmptyDict, None))
            \o When("imbalance" \in DOMAIN summary
                        /\ Gt(summary["imbalance"], cfg.vars.cat.imbalance_threshold),
                    Alert("IMBALANCE", summary, None)))

\* lines 596-604
boolean_alerts(cfg, summary) ==
    Ok(When("imbalance" \in DOMAIN summary
                /\ Gt(summary["imbalance"], cfg.vars.bool.imbalance_threshold),
            Alert("IMBALANCE", EmptyDict, None)))

\* lines 607-614
generic_alerts(summary) ==
    IF "p_missing" \notin DOMAIN summary
    THEN Raise("KeyError")
    ELSE Ok(When(alert_value(summary["p_missing"]),
                 Alert("MISSING", EmptyDict, None)))

supported_alerts_nonempty(summary) ==
    IF "n" \notin DOMAIN summary
    THEN Raise("KeyError")
    ELSE Ok(When(Eq(Get(summary, "n_distinct", NaN), summary["n"])
                     /\ Gt(summary["n"], N(0)),
                 Alert("UNIQUE", EmptyDict, None))
            \o When(Eq(Get(summary, "n_distinct", NaN), N(1)),
                    Alert("CONSTANT", summary, None)))

\* lines 617-624
supported_alerts(summary) ==
    IF "n" \notin DOMAIN summary
    THEN Raise("KeyError")
    ELSE Ok(When(Eq(Get(summary, "n_distinct", NaN), summary["n"]),
                 Alert("UNIQUE", EmptyDict, None))
            \o When(Eq(Get(summary, "n_distinct", NaN), N(1)),
                    Alert("CONSTANT", summary, None)))

unsupported_alerts_once(summary) ==
    Ok(<<Alert("UNSUPPORTED", EmptyDict, None)>>)

\* lines 627-632
unsupported_alerts(summary) ==
    Ok(<<Alert("UNSUPPORTED", EmptyDict, None), Alert("REJECTED", EmptyDict, None)>>)

\* lines 654-661: the rules of the column's type
type_alerts(cfg, description) ==
    CASE description["type"] = "Categorical" -> categorical_alerts(cfg, description)
      [] description["type"] = "Numeric" -> numeric_alerts(cfg, description)
      [] description["type"] = "TimeSeries" -> timeseries_alerts(cfg, description)
      [] description["type"] = "Boolean" -> boolean_alerts(cfg, description)
      [] OTHER -> Ok(<<>>)

backfill_column_only(found, col, description) ==
    [idx \in 1..Len(found) |-> [found[idx] EXCEPT !.column_name = col]]

\* lines 663-665: alerts[idx].column_name = col; alerts[idx].values = description
backfill(found, col, description) ==
    [idx \in 1..Len(found) |->
        [found[idx] EXCEPT !.column_name = col, !.values = description]]

\* lines 635-666
check_variable_alerts(cfg, col, description) ==
    LET g == generic_alerts(description)
    IN  IF g.exc # None THEN g
        ELSE IF "type" \notin DOMAIN description THEN Raise("KeyError")
        ELSE IF description["type"] = "Unsupported"
        THEN Ok(backfill(g.val \o unsupported_alerts(description).val, col, description))
        ELSE LET s == supported_alerts(description)
                 t == type_alerts(cfg, description)
             IN  IF s.exc # None THEN s
                 ELSE IF t.exc # None THEN t
                 ELSE Ok(backfill(g.val \o s.val \o t.val, col, description))

\* lines 696-697: for col, description in series_description.items()
RECURSIVE variable_alerts(_, _)
variable_alerts(cfg, descriptions) ==
    IF descriptions = <<>>
    THEN Ok(<<>>)
    ELSE LET first == check_variable_alerts(cfg, Head(descriptions)[1],
                                            Head(descriptions)[2])
             rest == variable_alerts(cfg, Tail(descriptions))
         IN  IF first.exc # None THEN first
             ELSE IF rest.exc # None THEN rest
             ELSE Ok(first.val \o rest.val)

\* the sort key of line 699
sort_key(alert) == str_alert_type(alert.alert_type)

\* an unstable insertion: the element goes before the elements with its key
RECURSIVE insert_sorted_unstable(_, _)
insert_sorted_unstable(sorted, alert) ==
    IF sorted = <<>>
    THEN <<alert>>
    ELSE IF ~str_lt(str_alert_type(Head(sorted).alert_type),
                    str_alert_type(alert.alert_type))
         THEN <<alert>> \o sorted
         ELSE <<Head(sorted)>> \o insert_sorted_unstable(Tail(sorted), alert)

\* list.sort is stable: an element goes behind every element whose key is
\* not greater than its own
RECURSIVE insert_sorted(_, _)
insert_sorted(sorted, alert) ==
    IF sorted = <<>>
    THEN <<alert>>
    ELSE IF str_lt(sort_key(alert), sort_key(Head(sorted)))
         THEN <<alert>> \o sorted
         ELSE <<Head(sorted)>> \o insert_sorted(Tail(sorted), alert)

RECURSIVE sort_alerts_from(_, _)
sort_alerts_from(sorted, rest) ==
    IF rest = <<>>
    THEN sorted
    ELSE sort_alerts_from(insert_sorted(sorted, Head(rest)), Tail(rest))

\* line 699: alerts.sort(key=lambda alert: str(alert.alert_type))
sort_alerts(found) == sort_alerts_from(<<>>, found)

\* lines 695-698: the three groups, concatenated
collect_alerts(cfg, table, descriptions, corrs) ==
    LET t == check_table_alerts(table)
        v == variable_alerts(cfg, descriptions)
        c == check_correlation_alerts(cfg, corrs)
    IN  IF t.exc # None THEN t
        ELSE IF v.exc # None THEN v
        ELSE IF c.exc # None THEN c
        ELSE Ok(t.val \o v.val \o c.val)

\* lines 692-700
get_alerts(cfg, table, descriptions, corrs) ==
    LET found == collect_alerts(cfg, table, descriptions, corrs)
    IN  IF found.exc # None THEN found ELSE Ok(sort_alerts(found.val))

(***************************************************************************)
(* Inputs                                                                  *)
(***************************************************************************)
\* the largest number of matrix cells that differ from the identity matrix
MaxEntries == 2

\* column labels of the correlation matrices
Cols == <<"a", "b", "c">>

\* the correlation methods in use
Methods == {"pearson", "spearman"}

\* config.vars: the thresholds the alert rules read (the package defaults)
DefaultVars ==
    [num |-> [skewness_threshold |-> N(20), chi_squared_threshold |-> F(999)],
     cat |-> [cardinality_threshold |-> N(50), chi_squared_threshold |-> F(999),
              imbalance_threshold |-> F(500)],
     bool |-> [imbalance_threshold |-> F(500)]]

\* config.correlations[method].threshold: each method has its own
MethodThreshold(m) == IF m = "pearson" THEN F(900) ELSE F(500)

CorrelationSettings(m) ==
    [calculate : BOOLEAN, warn_high_correlations : BOOLEAN,
     threshold : {MethodThreshold(m)}]

\* config.correlations with every method computed and any choice of the
\* warn_high_correlations flags
WarnConfigs ==
    {[vars |-> DefaultVars, correlations |-> c] :
        c \in {x \in [Methods -> UNION {CorrelationSettings(m) : m \in Methods}] :
                  \A m \in Methods : x[m] \in CorrelationSettings(m) /\ x[m].calculate}}

\* what pandas returns for uncorrelated columns: ones on the diagonal
IdentityMatrix ==
    [cols |-> Cols,
     values |-> [i \in 1..Len(Cols) |->
                    [j \in 1..Len(Cols) |-> IF i = j THEN N(1) ELSE N(0)]]]

\* cell values: undefined, at the upper threshold with negative sign, between
\* the two thresholds
CellValues == {NaN, F(0 - 900), F(700)}

Cells == (1..Len(Cols)) \X (1..Len(Cols))

OffDiagonal == {c \in Cells : c[1] # c[2]}

\* an edit <<method, row, column, value>> of one cell of one method's matrix
Edits(cells) ==
    {<<m, c[1], c[2], v>> : m \in Methods, c \in cells, v \in CellValues}

set_cell(corrs, e) ==
    [k \in 1..Len(corrs) |->
        IF corrs[k][1] = e[1]
        THEN <<corrs[k][1],
               [corrs[k][2] EXCEPT !.values[e[2]][e[3]] = e[4]]>>
        ELSE corrs[k]]

RECURSIVE set_cells(_, _)
set_cells(corrs, edits) ==
    IF edits = <<>> THEN corrs
    ELSE set_cells(set_cell(corrs, Head(edits)), Tail(edits))

\* the orders in which a dict can hold some of the methods
MethodOrders ==
    {o \in UNION {[1..k -> Methods] : k \in 0..Cardinality(Methods)} :
        \A i, j \in DOMAIN o : i # j => o[i] # o[j]}

EditLists(cells) == UNION {[1..k -> Edits(cells)] : k \in 0..MaxEntries}

\* correlations dicts: some methods in some order, each with a matrix that
\* differs from the identity in at most MaxEntries cells overall
CorrelationInputs(orders, cells) ==
    {set_cells([k \in 1..Len(order) |-> <<order[k], IdentityMatrix>>], edits) :
        order \in orders, edits \in EditLists(cells)}

(***************************************************************************)
(* Column summaries                                                        *)
(***************************************************************************)
\* the largest number of keys of a summary that are removed or given
\* another value
MaxChanges == 2

\* the largest row count given to a changed summary
MaxN == 2

Types == {"Numeric", "Categorical", "Boolean", "TimeSeries", "DateTime", "Unsupported"}

\* the keys every summary holds
CommonKeys == {"type", "n", "n_missing", "p_missing"}

\* the keys that depend on the type
OptionalKeys ==
    {"skewness", "p_infinite", "p_zeros", "chi_squared", "stationary", "seasonal",
     "n_distinct", "imbalance", "composition", "min_length", "max_length",
     "date_warning"}

NumericKeys ==
    [n_distinct |-> N(2), skewness |-> F(0), p_infinite |-> F(0), p_zeros |-> F(0),
     chi_squared |-> [pvalue |-> F(0)]]

\* what the summarizer produces for a column of four rows, two distinct
\* values and nothing remarkable: no rule fires on it
QuietSummary(type) ==
    LET common == [type |-> type, n |-> N(4), n_missing |-> N(0), p_missing |-> F(0)]
    IN  CASE type = "Numeric" -> common @@ NumericKeys
          [] type = "TimeSeries" ->
                common @@ NumericKeys @@ [stationary |-> TRUE, seasonal |-> FALSE]
          [] type = "Categorical" ->
                common @@ [n_distinct |-> N(2), chi_squared |-> [pvalue |-> F(0)],
                           composition |-> TRUE, min_length |-> N(3),
                           max_length |-> N(5), imbalance |-> F(0)]
          [] type = "Boolean" -> common @@ [n_distinct |-> N(2), imbalance |-> F(0)]
          [] type = "DateTime" -> common @@ [n_distinct |-> N(2)]
          [] OTHER -> common

\* other values a key can take
KeyValues(key) ==
    CASE key = "n" -> {N(k) : k \in 0..MaxN}
      [] key = "p_missing" -> {NaN, F(9), F(10), F(11)}
      [] key = "n_distinct" -> {N(k) : k \in 0..MaxN} \cup {N(51)}
      [] key = "skewness" -> {NaN, N(0 - 21), N(21)}
      [] key = "p_infinite" -> {F(11)}
      [] key = "p_zeros" -> {F(11)}
      [] key = "chi_squared" -> {[pvalue |-> F(1000)]}
      [] key = "stationary" -> {FALSE}
      [] key = "seasonal" -> {TRUE}
      [] key = "imbalance" -> {F(501)}
      [] key = "composition" -> {TRUE}
      [] key = "min_length" -> {N(5)}
      [] key = "max_length" -> {N(3)}
      [] key = "date_warning" -> {TRUE}
      [] OTHER -> {}

\* a change <<"del", key>> removes a key, <<"set", key, value>> stores one
Changes ==
    {<<"del", k>> : k \in OptionalKeys}
        \cup UNION {{<<"set", k, v>> : v \in KeyValues(k)} :
                       k \in OptionalKeys \cup {"n", "p_missing"}}

change(summary, c) ==
    IF c[1] = "del"
    THEN [k \in DOMAIN summary \ {c[2]} |-> summary[k]]
    ELSE (c[2] :> c[3]) @@ summary

RECURSIVE change_all(_, _)
change_all(summary, cs) ==
    IF cs = <<>> THEN summary ELSE change_all(change(summary, Head(cs)), Tail(cs))

\* the summaries that differ from a quiet one in at most MaxChanges keys
Summaries ==
    {change_all(QuietSummary(t), cs) :
        t \in Types, cs \in UNION {[1..k -> Changes] : k \in 0..MaxChanges}}

DefaultConfig ==
    [vars |-> DefaultVars,
     correlations |-> [m \in Methods |->
         [calculate |-> TRUE, warn_high_correlations |-> TRUE,
          threshold |-> MethodThreshold(m)]]]

(***************************************************************************)
(* SpecVar: check_variable_alerts applied to one column summary            *)
(***************************************************************************)
VarInit ==
    /\ pc = "var_ready"
    /\ config = DefaultConfig
    /\ series_description \in {<<<<"a", summary>>>> : summary \in Summaries}
    /\ table_stats = EmptyDict
    /\ correlations = <<>>
    /\ correlated_mapping = <<>>
    /\ alerts = <<>>
    /\ error = None
    /\ NotProfiling

CheckVariableAlerts ==
    /\ pc = "var_ready"
    /\ LET r == check_variable_alerts(config, series_description[1][1],
                                      series_description[1][2])
       IN  /\ alerts' = r.val
           /\ error' = r.exc
    /\ pc' = "var_done"
    /\ UNCHANGED <<config, table_stats, series_description, correlations,
                   correlated_mapping, describe_vars>>

VarNext == CheckVariableAlerts

SpecVar == VarInit /\ [][VarNext]_vars

(***************************************************************************)
(* SpecAlerts: get_alerts applied to table statistics, up to MaxColumns    *)
(* column summaries and a correlations dict                                *)
(***************************************************************************)
\* the largest number of columns of the profiled table
MaxColumns == 2

\* column summaries on which different rules fire, and one that lacks a key
\* the Numeric rules read
SampleSummaries ==
    {QuietSummary("Unsupported"),
     QuietSummary("Boolean"),
     change_all(QuietSummary("Numeric"),
                <<<<"set", "p_missing", F(11)>>, <<"set", "p_zeros", F(11)>>>>),
     change_all(QuietSummary("Categorical"),
                <<<<"set", "n_distinct", N(1)>>, <<"set", "imbalance", F(501)>>>>),
     change_all(QuietSummary("TimeSeries"),
                <<<<"set", "p_missing", F(11)>>, <<"set", "seasonal", TRUE>>>>),
     change_all(QuietSummary("Numeric"), <<<<"del", "skewness">>>>)}

\* dicts of n columns, named as the first n column labels
DescriptionInputs(summaries, n) ==
    {[k \in 1..n |-> <<Cols[k], sums[k]>>] : sums \in [1..n -> summaries]}

\* table statistics of a table of n rows: the duplicate count absent,
\* undefined or at most n
TableInputs(n) ==
    {[k \in {"n"} |-> N(n)]}
        \cup {[k \in {"n", "n_duplicates"} |-> IF k = "n" THEN N(n) ELSE d] :
                 d \in {NaN} \cup {N(i) : i \in 0..n}}

\* ---- check_table_alerts on its own ----
\* table statistics with a row count, a column count and, once the
\* duplicates stage has run, a number of duplicates
DuplicateValues == {NaN, F(5), F(10), F(11)} \cup {N(i) : i \in 0..MaxN}

TableStatistics ==
    {[k \in {"n", "n_var"} |-> IF k = "n" THEN N(n) ELSE N(c)] :
        n \in 0..MaxN, c \in 0..MaxColumns}
    \cup {[k \in {"n", "n_var", "n_duplicates"} |->
              IF k = "n" THEN N(n) ELSE IF k = "n_var" THEN N(c) ELSE d] :
             n \in 0..MaxN, c \in 0..MaxColumns, d \in DuplicateValues}

TableInit ==
    /\ pc = "table_ready"
    /\ config = DefaultConfig
    /\ table_stats \in TableStatistics
    /\ series_description = <<>>
    /\ correlations = <<>>
    /\ correlated_mapping = <<>>
    /\ alerts = <<>>
    /\ error = None
    /\ NotProfiling

CheckTableAlerts ==
    /\ pc = "table_ready"
    /\ LET r == check_table_alerts(table_stats)
       IN  /\ alerts' = r.val
           /\ error' = r.exc
    /\ pc' = "table_done"
    /\ UNCHANGED <<config, table_stats, series_description, correlations,
                   correlated_mapping, describe_vars>>

TableNext == CheckTableAlerts

SpecTable == TableInit /\ [][TableNext]_vars

\* a symmetric matrix in which the columns at i and j correlate with value v
PairMatrix(i, j, v) ==
    [IdentityMatrix EXCEPT !.values[i][j] = v, !.values[j][i] = v]

SampleCorrelations ==
    {<<>>,
     <<<<"pearson", PairMatrix(1, 2, F(970))>>>>,
     <<<<"pearson", PairMatrix(1, 2, F(970))>>, <<"spearman", PairMatrix(1, 3, F(700))>>>>}

AlertsInit ==
    /\ pc = "alerts_ready"
    /\ config = DefaultConfig
    /\ table_stats \in UNION {TableInputs(n) : n \in 0..1}
    /\ series_description
          \in UNION {DescriptionInputs(SampleSummaries, n) : n \in 0..MaxColumns}
    /\ correlations \in SampleCorrelations
    /\ correlated_mapping = <<>>
    /\ alerts = <<>>
    /\ error = None
    /\ NotProfiling

GetAlerts ==
    /\ pc = "alerts_ready"
    /\ LET r == get_alerts(config, table_stats, series_description, correlations)
       IN  /\ alerts' = r.val
           /\ error' = r.exc
    /\ pc' = "alerts_done"
    /\ UNCHANGED <<config, table_stats, series_description, correlations,
                   correlated_mapping, describe_vars>>

AlertsNext == GetAlerts

SpecAlerts == AlertsInit /\ [][AlertsNext]_vars

(***************************************************************************)
(* SpecCalls: get_alerts called twice on the same arguments                *)
(***************************************************************************)
CallsInit ==
    /\ pc = "first_call"
    /\ config = DefaultConfig
    /\ table_stats \in UNION {TableInputs(n) : n \in 0..1}
    /\ series_description
          \in UNION {DescriptionInputs(SampleSummaries, n) : n \in 0..MaxColumns}
    /\ correlations \in SampleCorrelations
    /\ correlated_mapping = <<>>
    /\ alerts = <<>>
    /\ error = None
    /\ NotProfiling

\* np.fill_diagonal writes into the matrices of the methods that are checked
CallGetAlertsDiagonalWritten ==
    /\ pc \in {"first_call", "second_call"}
    /\ LET r == get_alerts(config, table_stats, series_description, correlations)
       IN  /\ alerts' = r.val
           /\ error' = r.exc
    /\ previous' = [arguments |-> <<config, table_stats, series_description, correlations>>,
                    alerts |-> alerts, error |-> error]
    /\ pc' = IF pc = "first_call" THEN "second_call" ELSE "calls_done"
    /\ correlations' =
           [k \in 1..Len(correlations) |->
               IF config.correlations[correlations[k][1]].warn_high_correlations
               THEN <<correlations[k][1],
                      [correlations[k][2] EXCEPT
                          !.values = [i \in DOMAIN @ |->
                                         [j \in DOMAIN @[i] |->
                                             IF i = j THEN N(0) ELSE @[i][j]]]]>>
               ELSE correlations[k]]
    /\ UNCHANGED <<config, table_stats, series_description,
                   correlated_mapping, df, sample, env, pbar, supported_columns,
                   interval_columns, cursor, scatter_matrix, missing, samples,
                   duplicates, tsindex_description, package, base_description,
                   warnings, trace>>

\* a call of get_alerts: it assigns to its own list and to the alerts it
\* builds, never to an argument; previous keeps the arguments and the result
\* the call started from
CallGetAlerts ==
    /\ pc \in {"first_call", "second_call"}
    /\ LET r == get_alerts(config, table_stats, series_description, correlations)
       IN  /\ alerts' = r.val
           /\ error' = r.exc
    /\ previous' = [arguments |-> <<config, table_stats, series_description, correlations>>,
                    alerts |-> alerts, error |-> error]
    /\ pc' = IF pc = "first_call" THEN "second_call" ELSE "calls_done"
    /\ UNCHANGED <<config, table_stats, series_description, correlations,
                   correlated_mapping, df, sample, env, pbar, supported_columns,
                   interval_columns, cursor, scatter_matrix, missing, samples,
                   duplicates, tsindex_description, package, base_description,
                   warnings, trace>>

CallsNext == CallGetAlerts

SpecCalls == CallsInit /\ [][CallsNext]_vars

(***************************************************************************)
(* SpecCheck: perform_check_correlation applied to one matrix whose cells, *)
(* diagonal included, take any of the cell values                          *)
(***************************************************************************)
CheckThresholds == {F(0), F(500), F(900)}

CheckConfigs ==
    {[vars |-> DefaultVars,
      correlations |-> [m \in {"pearson"} |->
          [calculate |-> TRUE, warn_high_correlations |-> TRUE, threshold |-> t]]] :
        t \in CheckThresholds}

CheckInit ==
    /\ pc = "check_ready"
    /\ config \in CheckConfigs
    /\ correlations \in CorrelationInputs({<<"pearson">>}, Cells)
    /\ table_stats = EmptyDict
    /\ series_description = <<>>
    /\ correlated_mapping = <<>>
    /\ alerts = <<>>
    /\ error = None
    /\ NotProfiling

PerformCheckCorrelation ==
    /\ pc = "check_ready"
    /\ correlated_mapping' =
           perform_check_correlation(correlations[1][2],
                                     config.correlations[correlations[1][1]].threshold)
    /\ pc' = "check_done"
    /\ UNCHANGED <<config, table_stats, series_description, correlations, alerts, error,
                   describe_vars>>

CheckNext == PerformCheckCorrelation

SpecCheck == CheckInit /\ [][CheckNext]_vars

(***************************************************************************)
(* SpecCorr: check_correlation_alerts applied to the methods' matrices     *)
(***************************************************************************)
CorrInit ==
    /\ pc = "corr_ready"
    /\ config \in WarnConfigs
    /\ correlations \in CorrelationInputs(MethodOrders, OffDiagonal)
    /\ table_stats = EmptyDict
    /\ series_description = <<>>
    /\ correlated_mapping = <<>>
    /\ alerts = <<>>
    /\ error = None
    /\ NotProfiling

CheckCorrelationAlerts ==
    /\ pc = "corr_ready"
    /\ LET r == check_correlation_alerts(config, correlations)
       IN  /\ alerts' = r.val
           /\ error' = r.exc
    /\ pc' = "corr_done"
    /\ UNCHANGED <<config, table_stats, series_description, correlations,
                   correlated_mapping, describe_vars>>

CorrNext == CheckCorrelationAlerts

SpecCorr == CorrInit /\ [][CorrNext]_vars

(***************************************************************************)
(* correlations.py: calculate_correlation and get_active_correlations      *)
(* What a method's compute does on the table is an outcome Ok(matrix),     *)
(* Ok(NoValue) or Raise(exception).                                        *)
(***************************************************************************)
\* the keys of the correlation_measures dict
correlation_measures == {"auto", "pearson", "spearman", "kendall", "cramers", "phi_k"}

caught_none(e) == FALSE

\* the except clause of calculate_correlation
caught(e) ==
    e \in {"ValueError", "AssertionError", "TypeError", "DataError", "IndexError"}

warn_correlation(correlation_name, e) == <<"correlation", correlation_name, e>>

\* compute[name] is the outcome of correlation_measures[name].compute(config,
\* df, summary); the result is [exc, val, warned], warned the warnings issued
calculate_correlation(compute, correlation_name) ==
    LET attempt == IF correlation_name \notin correlation_measures
                   THEN Raise("KeyError")
                   ELSE compute[correlation_name]
        correlation == IF attempt.exc = None THEN attempt.val ELSE NoValue
    IN  IF attempt.exc # None /\ ~caught(attempt.exc)
        THEN [exc |-> attempt.exc, val |-> NoValue, warned |-> <<>>]
        ELSE [exc |-> None,
              val |-> IF correlation # NoValue /\ Len(correlation.values) <= 0
                      THEN NoValue
                      ELSE correlation,
              warned |-> IF attempt.exc # None
                         THEN <<warn_correlation(correlation_name, attempt.exc)>>
                         ELSE <<>>]

get_configured_correlations(cfg) == cfg.correlation_keys

\* config.correlations is a function; correlation_keys is the order in which
\* the dict config.correlations holds its keys
get_active_correlations(cfg) ==
    SelectSeq(cfg.correlation_keys, LAMBDA name : cfg.correlations[name].calculate)

(***************************************************************************)
(* missing.py                                                              *)
(***************************************************************************)
\* the keys of missing_map, in order
missing_names == <<"bar", "matrix", "heatmap">>

min_missing(name) == IF name = "heatmap" THEN N(2) ELSE N(0)

\* settings["name"]: the display name of a diagram (translated)
settings_name(name) ==
    CASE name = "bar" -> "Count" [] name = "matrix" -> "Matrix" [] OTHER -> "Heatmap"

Sub(x, y) == IF x.nan \/ y.nan THEN NaN ELSE F(x.v - y.v)

\* the names of the diagrams that are switched on and have enough columns
\* with missing values
get_missing_active(cfg, table) ==
    SelectSeq(missing_names,
        LAMBDA name :
            /\ cfg.missing_diagrams[name]
            /\ Ge(table["n_vars_with_missing"], min_missing(name))
            /\ \/ name # "heatmap"
               \/ Ge(Sub(table["n_vars_with_missing"], table["n_vars_all_missing"]),
                     min_missing(name)))

warn_missing(missing_name, e) == <<"missing", missing_name, e>>

handle_missing_uncaught(name, outcome) ==
    [exc |-> outcome.exc,
     val |-> IF outcome.exc = None THEN outcome.val ELSE NoValue,
     warned |-> <<>>]

\* outcome is what the plotting function does: Ok(plot), Ok(NoValue) or
\* Raise(exception); only ValueError is turned into a warning
handle_missing(name, outcome) ==
    IF outcome.exc = "ValueError"
    THEN [exc |-> None, val |-> NoValue, warned |-> <<warn_missing(name, outcome.exc)>>]
    ELSE [exc |-> outcome.exc,
          val |-> IF outcome.exc = None THEN outcome.val ELSE NoValue,
          warned |-> <<>>]

get_missing_diagram(table, name, outcome) ==
    IF table.n = 0
    THEN [exc |-> None, val |-> NoValue, warned |-> <<>>]
    ELSE LET result == handle_missing(settings_name(name), outcome)
         IN  IF result.exc # None \/ result.val = NoValue
             THEN result
             ELSE [result EXCEPT !.val = [name |-> settings_name(name),
                                         caption |-> name,
                                         matrix |-> result.val]]

(***************************************************************************)
(* describe.py: the inputs of a run and the collaborators of describe      *)
(* A run is the nominal run changed in at most MaxDeviations ways.  The    *)
(* nominal run profiles a table of four rows and two quiet Numeric columns *)
(* with the methods pearson and phi_k, and every collaborator succeeds.    *)
(***************************************************************************)
\* the largest number of ways in which a run differs from the nominal run
MaxDeviations == 2

\* the keys of config.correlations, in order
ConfigMethods == <<"pearson", "phi_k">>

\* the stages whose collaborator can be made to fail
FailingStages ==
    <<"preprocess", "summarize", "table_stats", "sample", "duplicates", "tsindex">>

NominalRun ==
    [df_none |-> FALSE, columns |-> 2, rows |-> 4,
     types |-> [i \in 1..Len(Cols) |-> "Numeric"], has_missing |-> {},
     no_skewness |-> {},
     sample_given |-> FALSE, methods |-> ConfigMethods,
     calculate |-> [m \in correlation_measures \cup {"custom"} |-> TRUE],
     timeseries |-> FALSE, progress_bar |-> TRUE,
     missing_diagrams |-> [name \in Range(missing_names) |-> TRUE],
     compute |-> [m \in correlation_measures |-> "matrix"],
     plot |-> None,
     diagram |-> [name \in Range(missing_names) |-> "plot"],
     fail |-> [stage \in Range(FailingStages) |-> None],
     n_duplicates |-> 0]

\* the ways in which a run can differ from the nominal one
Deviations ==
    <<  <<"df_none">>, <<"sample_given">>, <<"timeseries">>, <<"progress_bar">>,
        <<"method", "custom">>, <<"missing_diagrams", "bar">>,
        <<"plot", "ValueError">>, <<"n_duplicates", 1>>,
        <<"diagram", "bar", "none">>, <<"diagram", "bar", "ValueError">>,
        <<"diagram", "bar", "TypeError">>, <<"diagram", "matrix", "ValueError">>,
        <<"diagram", "heatmap", "ValueError">>  >>
    \o [n \in 1..(MaxN + 1) |-> <<"rows", n - 1>>]
    \o [k \in 1..MaxColumns |-> <<"columns", IF k <= NominalRun.columns THEN k - 1 ELSE k>>]
    \o [i \in 1..NominalRun.columns |-> <<"types", i, "Categorical">>]
    \o [i \in 1..NominalRun.columns |-> <<"types", i, "Unsupported">>]
    \o [i \in 1..NominalRun.columns |-> <<"has_missing", i>>]
    \o [i \in 1..NominalRun.columns |-> <<"no_skewness", i>>]
    \o [i \in 1..Len(ConfigMethods) |-> <<"calculate", ConfigMethods[i]>>]
    \o [i \in 1..Len(ConfigMethods) |-> <<"compute", ConfigMethods[i], "none">>]
    \o [i \in 1..Len(ConfigMethods) |-> <<"compute", ConfigMethods[i], "empty">>]
    \o [i \in 1..Len(ConfigMethods) |-> <<"compute", ConfigMethods[i], "ValueError">>]
    \o [i \in 1..Len(ConfigMethods) |-> <<"compute", ConfigMethods[i], "KeyError">>]
    \o <<  <<"compute", "phi_k", "DataError">>  >>
    \o [i \in 1..Len(FailingStages) |-> <<"fail", FailingStages[i], "RuntimeError">>]

deviate(run, d) ==
    CASE d[1] \in {"df_none", "sample_given", "timeseries"} ->
            [run EXCEPT ![d[1]] = TRUE]
      [] d[1] = "progress_bar" -> [run EXCEPT !.progress_bar = FALSE]
      [] d[1] = "method" -> [run EXCEPT !.methods = Append(@, d[2])]
      [] d[1] = "missing_diagrams" -> [run EXCEPT !.missing_diagrams[d[2]] = FALSE]
      [] d[1] = "calculate" -> [run EXCEPT !.calculate[d[2]] = FALSE]
      [] d[1] \in {"plot", "n_duplicates", "rows", "columns"} ->
            [run EXCEPT ![d[1]] = d[2]]
      [] d[1] = "has_missing" -> [run EXCEPT !.has_missing = @ \cup {d[2]}]
      [] d[1] = "no_skewness" -> [run EXCEPT !.no_skewness = @ \cup {d[2]}]
      [] OTHER -> [run EXCEPT ![d[1]][d[2]] = d[3]]

RECURSIVE deviate_all(_, _)
deviate_all(run, ds) ==
    IF ds = <<>> THEN run ELSE deviate_all(deviate(run, Head(ds)), Tail(ds))

\* the runs: each applies some deviations, in the order of Deviations
Runs ==
    {deviate_all(NominalRun, [i \in DOMAIN pick |-> Deviations[pick[i]]]) :
        pick \in {p \in UNION {[1..k -> 1..Len(Deviations)] : k \in 0..MaxDeviations} :
                     \A i, j \in DOMAIN p : i < j => p[i] < p[j]}}

\* the table: its column labels and its number of rows
DfOf(run) ==
    IF run.df_none THEN NoValue
    ELSE [columns |-> SubSeq(Cols, 1, run.columns), n |-> run.rows]

ConfigOf(run) ==
    [vars |-> [num |-> DefaultVars.num, cat |-> DefaultVars.cat,
               bool |-> DefaultVars.bool,
               timeseries |-> [active |-> run.timeseries]],
     correlations |-> [m \in Range(run.methods) |->
         [calculate |-> run.calculate[m], warn_high_correlations |-> TRUE,
          threshold |-> MethodThreshold(m)]],
     correlation_keys |-> run.methods,
     progress_bar |-> run.progress_bar,
     missing_diagrams |-> run.missing_diagrams,
     interactions |-> [continuous |-> TRUE]]

\* what the collaborators do in this run
EnvOf(run) ==
    [types |-> run.types, has_missing |-> run.has_missing,
     no_skewness |-> run.no_skewness, compute |-> run.compute,
     plot |-> run.plot, diagram |-> run.diagram, fail |-> run.fail,
     n_duplicates |-> run.n_duplicates]

Plot(x) == [plot |-> x]

Min(a, b) == IF a < b THEN a ELSE b

\* the summarizer: the summary of a column of n rows; a column with missing
\* values has one missing value
describe_1d(type, n, has_missing) ==
    LET quiet == QuietSummary(type)
        n_missing == IF has_missing /\ n > 0 THEN 1 ELSE 0
    IN  [k \in DOMAIN quiet |->
            CASE k = "n" -> N(n)
              [] k = "n_distinct" -> N(Min(n, 2))
              [] k = "n_missing" -> N(n_missing)
              [] k = "p_missing" -> IF n_missing = 0 THEN F(0) ELSE F(1000 \div n)
              [] OTHER -> quiet[k]]

\* the summary of a column, or that summary without its skewness
get_series_descriptions(table, environment) ==
    [i \in 1..Len(table.columns) |->
        LET summary == describe_1d(environment.types[i], table.n,
                                   i \in environment.has_missing)
        IN  <<table.columns[i],
              IF i \in environment.no_skewness
              THEN [k \in DOMAIN summary \ {"skewness"} |-> summary[k]]
              ELSE summary>>]

get_table_stats(table, descriptions) ==
    LET columns == 1..Len(descriptions)
    IN  [n |-> N(table.n),
         n_var |-> N(Len(table.columns)),
         n_vars_with_missing |->
             N(Cardinality({i \in columns : Gt(descriptions[i][2]["n_missing"], N(0))})),
         n_vars_all_missing |->
             N(Cardinality({i \in columns :
                               Eq(descriptions[i][2]["n_missing"], N(table.n))}))]

\* the matrix a method computes over the interval columns: pearson finds the
\* first two columns correlated, the other methods find no correlation
matrix_over(cols, name) ==
    [cols |-> cols,
     values |-> [i \in 1..Len(cols) |-> [j \in 1..Len(cols) |->
         IF i = j THEN N(1)
         ELSE IF name = "pearson" /\ {i, j} = {1, 2} THEN F(970) ELSE N(0)]]]

EmptyMatrix == [cols |-> <<>>, values |-> <<>>]

\* what correlation_measures[name].compute does in this run
compute_outcomes(environment, cols) ==
    [name \in correlation_measures |->
        CASE environment.compute[name] = "matrix" -> Ok(matrix_over(cols, name))
          [] environment.compute[name] = "empty" -> Ok(EmptyMatrix)
          [] environment.compute[name] = "none" -> Ok(NoValue)
          [] OTHER -> Raise(environment.compute[name])]

diagram_outcome(environment, name) ==
    CASE environment.diagram[name] = "plot" -> Ok(Plot(name))
      [] environment.diagram[name] = "none" -> Ok(NoValue)
      [] OTHER -> Raise(environment.diagram[name])

\* the pairs (x, y) of interval columns
get_scatter_tasks(cfg, continuous_variables) ==
    IF ~cfg.interactions.continuous THEN <<>>
    ELSE LET k == Len(continuous_variables)
         IN  [t \in 1..(k * k) |->
                 <<continuous_variables[((t - 1) % k) + 1],
                   continuous_variables[((t - 1) \div k) + 1]>>]

\* the duplicate rows of the table over the given columns and their metrics
get_duplicates(table, columns, environment) ==
    LET k == IF columns # <<>> /\ table.n > 1 THEN environment.n_duplicates ELSE 0
    IN  [metrics |-> [n_duplicates |-> N(k),
                      p_duplicates |-> IF k = 0 THEN F(0) ELSE F((1000 * k) \div table.n)],
         duplicates |-> [columns |-> columns, rows |-> k]]

\* tqdm: update counts only while the bar is enabled
update(bar) == IF bar.disable THEN bar ELSE [bar EXCEPT !.n = @ + 1]

add_total(bar, k) == [bar EXCEPT !.total = @ + k]

(***************************************************************************)
(* describe.py: describe, one action per stage and per sub-task of a stage *)
(***************************************************************************)
Init ==
    /\ pc = "validate"
    /\ \E run \in Runs :
          /\ config = ConfigOf(run)
          /\ df = DfOf(run)
          /\ sample = IF run.sample_given THEN [rows |-> "custom"] ELSE NoValue
          /\ env = EnvOf(run)
    /\ table_stats = EmptyDict
    /\ series_description = <<>>
    /\ correlations = <<>>
    /\ correlated_mapping = <<>>
    /\ alerts = <<>>
    /\ error = None
    /\ pbar = NoValue
    /\ supported_columns = <<>> /\ interval_columns = <<>> /\ cursor = 0
    /\ scatter_matrix = <<>> /\ missing = <<>> /\ samples = NoValue
    /\ duplicates = NoValue /\ tsindex_description = NoValue
    /\ package = NoValue /\ base_description = NoValue
    /\ warnings = <<>> /\ trace = <<>> /\ previous = NoValue

number_of_tasks == 5

\* what describe never assigns
arguments == <<config, sample, env, correlated_mapping, previous>>

\* if df is None: raise ValueError
Validate ==
    /\ pc = "validate"
    /\ trace' = Append(trace, <<"validate">>)
    /\ IF df = NoValue
       THEN pc' = "raised" /\ error' = "ValueError"
       ELSE pc' = "preprocess" /\ UNCHANGED error
    /\ UNCHANGED <<arguments, df, table_stats, series_description, correlations, alerts,
                   pbar, supported_columns, interval_columns, cursor, scatter_matrix,
                   missing, samples, duplicates, tsindex_description, package,
                   base_description, warnings>>

\* check_dataframe(df); df = preprocess(config, df)
Preprocess ==
    /\ pc = "preprocess"
    /\ trace' = Append(trace, <<"preprocess">>)
    /\ IF env.fail["preprocess"] # None
       THEN pc' = "raised" /\ error' = env.fail["preprocess"]
       ELSE pc' = "summarize" /\ UNCHANGED error
    /\ UNCHANGED <<arguments, df, table_stats, series_description, correlations, alerts,
                   pbar, supported_columns, interval_columns, cursor, scatter_matrix,
                   missing, samples, duplicates, tsindex_description, package,
                   base_description, warnings>>

\* the bar is created with the five fixed tasks; get_series_descriptions
\* updates it once per column
Summarize ==
    /\ pc = "summarize"
    /\ trace' = Append(trace, <<"summarize">>)
    /\ LET bar == add_total([total |-> number_of_tasks, n |-> 0, disable |-> ~config.progress_bar],
                            Len(df.columns))
       IN  IF env.fail["summarize"] # None
           THEN /\ pc' = "raised" /\ error' = env.fail["summarize"]
                /\ pbar' = bar
                /\ UNCHANGED series_description
           ELSE /\ pc' = "variables" /\ UNCHANGED error
                /\ series_description' = get_series_descriptions(df, env)
                /\ pbar' = IF bar.disable THEN bar
                           ELSE [bar EXCEPT !.n = @ + Len(df.columns)]
    /\ UNCHANGED <<arguments, df, table_stats, correlations, alerts,
                   supported_columns, interval_columns, cursor, scatter_matrix,
                   missing, samples, duplicates, tsindex_description, package,
                   base_description, warnings>>

\* variables, supported_columns, interval_columns
VariableTypes ==
    /\ pc = "variables"
    /\ trace' = Append(trace, <<"variables">>)
    /\ LET columns == Keys(series_description)
           type_name(column) == Lookup(series_description, column)["type"]
       IN  /\ supported_columns' =
                  SelectSeq(columns, LAMBDA column : type_name(column) # "Unsupported")
           /\ interval_columns' =
                  SelectSeq(columns,
                      LAMBDA column : type_name(column) \in {"Numeric", "TimeSeries"})
    /\ pbar' = update(add_total(pbar, 1))
    /\ pc' = "table_stats"
    /\ UNCHANGED <<arguments, df, table_stats, series_description, correlations, alerts,
                   error, cursor, scatter_matrix, missing, samples, duplicates,
                   tsindex_description, package, base_description, warnings>>

\* table_stats = progress(get_table_stats, ...)(config, df, series_description)
TableStats ==
    /\ pc = "table_stats"
    /\ trace' = Append(trace, <<"table_stats">>)
    /\ IF env.fail["table_stats"] # None
       THEN /\ pc' = "raised" /\ error' = env.fail["table_stats"]
            /\ UNCHANGED <<table_stats, pbar>>
       ELSE /\ pc' = "correlations" /\ UNCHANGED error
            /\ table_stats' = get_table_stats(df, series_description)
            /\ pbar' = update(pbar)
    /\ UNCHANGED <<arguments, df, series_description, correlations, alerts,
                   supported_columns, interval_columns, cursor, scatter_matrix,
                   missing, samples, duplicates, tsindex_description, package,
                   base_description, warnings>>

StartCorrelationsAlwaysCounted ==
    /\ pc = "correlations"
    /\ trace' = Append(trace, <<"correlations">>)
    /\ correlations' = <<>>
    /\ IF ~Eq(table_stats["n"], N(0))
       THEN LET correlation_names == get_active_correlations(config)
            IN  /\ pbar' = add_total(pbar, Len(correlation_names))
                /\ cursor' = 1
                /\ pc' = IF correlation_names = <<>> THEN "filter_correlations"
                         ELSE "calculate_correlation"
       ELSE /\ pc' = "scatter"
            /\ pbar' = add_total(pbar, Len(get_active_correlations(config)))
            /\ UNCHANGED cursor
    /\ UNCHANGED <<arguments, df, table_stats, series_description, alerts, error,
                   supported_columns, interval_columns, scatter_matrix,
                   missing, samples, duplicates, tsindex_description, package,
                   base_description, warnings>>

\* if table_stats["n"] != 0: the active methods are counted into the total;
\* else: correlations = {}
StartCorrelations ==
    /\ pc = "correlations"
    /\ trace' = Append(trace, <<"correlations">>)
    /\ correlations' = <<>>
    /\ IF ~Eq(table_stats["n"], N(0))
       THEN LET correlation_names == get_active_correlations(config)
            IN  /\ pbar' = add_total(pbar, Len(correlation_names))
                /\ cursor' = 1
                /\ pc' = IF correlation_names = <<>> THEN "filter_correlations"
                         ELSE "calculate_correlation"
       ELSE /\ pc' = "scatter"
            /\ UNCHANGED <<pbar, cursor>>
    /\ UNCHANGED <<arguments, df, table_stats, series_description, alerts, error,
                   supported_columns, interval_columns, scatter_matrix,
                   missing, samples, duplicates, tsindex_description, package,
                   base_description, warnings>>

\* one entry of the dict comprehension:
\* progress(calculate_correlation, ...)(config, df, correlation_name, ...)
CalculateCorrelation ==
    /\ pc = "calculate_correlation"
    /\ LET correlation_names == get_active_correlations(config)
           correlation_name == correlation_names[cursor]
           r == calculate_correlation(compute_outcomes(env, interval_columns),
                                      correlation_name)
       IN  /\ trace' = Append(trace, <<"calculate_correlation", correlation_name>>)
           /\ warnings' = warnings \o r.warned
           /\ IF r.exc # None
              THEN /\ pc' = "raised" /\ error' = r.exc
                   /\ UNCHANGED <<correlations, pbar, cursor>>
              ELSE /\ correlations' = DictSet(correlations, correlation_name, r.val)
                   /\ pbar' = update(pbar)
                   /\ cursor' = cursor + 1
                   /\ pc' = IF cursor = Len(correlation_names)
                            THEN "filter_correlations"
                            ELSE "calculate_correlation"
                   /\ UNCHANGED error
    /\ UNCHANGED <<arguments, df, table_stats, series_description, alerts,
                   supported_columns, interval_columns, scatter_matrix,
                   missing, samples, duplicates, tsindex_description, package,
                   base_description>>

keep_all(d) == d

\* {key: value for key, value in d.items() if value is not None}
not_none(d) == SelectSeq(d, LAMBDA item : item[2] # NoValue)

FilterCorrelationsSkipped ==
    /\ pc = "filter_correlations"
    /\ correlations' = correlations
    /\ pc' = "scatter"
    /\ UNCHANGED <<arguments, df, table_stats, series_description, alerts, error, pbar,
                   supported_columns, interval_columns, cursor, scatter_matrix,
                   missing, samples, duplicates, tsindex_description, package,
                   base_description, warnings, trace>>

FilterCorrelations ==
    /\ pc = "filter_correlations"
    /\ correlations' = not_none(correlations)
    /\ pc' = "scatter"
    /\ UNCHANGED <<arguments, df, table_stats, series_description, alerts, error, pbar,
                   supported_columns, interval_columns, cursor, scatter_matrix,
                   missing, samples, duplicates, tsindex_description, package,
                   base_description, warnings, trace>>

\* {x: {y: None} for x, y in scatter_tasks}
RECURSIVE scatter_placeholders(_, _)
scatter_placeholders(acc, tasks) ==
    IF tasks = <<>> THEN acc
    ELSE scatter_placeholders(
             DictSet(acc, Head(tasks)[1], <<<<Head(tasks)[2], NoValue>>>>),
             Tail(tasks))

ScatterTasks ==
    /\ pc = "scatter"
    /\ trace' = Append(trace, <<"scatter">>)
    /\ LET scatter_tasks == get_scatter_tasks(config, interval_columns)
       IN  /\ pbar' = add_total(pbar, Len(scatter_tasks))
           /\ scatter_matrix' = scatter_placeholders(<<>>, scatter_tasks)
           /\ cursor' = 1
           /\ pc' = IF scatter_tasks = <<>> THEN "missing" ELSE "scatter_plot"
    /\ UNCHANGED <<arguments, df, table_stats, series_description, correlations, alerts,
                   error, supported_columns, interval_columns,
                   missing, samples, duplicates, tsindex_description, package,
                   base_description, warnings>>

\* scatter_matrix[x][y] = progress(get_scatter_plot, ...)(config, df, x, y, ...);
\* env.plot is the exception the first plot raises, if any
ScatterPlot ==
    /\ pc = "scatter_plot"
    /\ LET scatter_tasks == get_scatter_tasks(config, interval_columns)
           x == scatter_tasks[cursor][1]
           y == scatter_tasks[cursor][2]
       IN  /\ trace' = Append(trace, <<"scatter_plot", x, y>>)
           /\ IF cursor = 1 /\ env.plot # None
              THEN /\ pc' = "raised" /\ error' = env.plot
                   /\ UNCHANGED <<scatter_matrix, pbar, cursor>>
              ELSE /\ scatter_matrix' =
                          DictSet(scatter_matrix, x,
                                  DictSet(Lookup(scatter_matrix, x), y, Plot(<<x, y>>)))
                   /\ pbar' = update(pbar)
                   /\ cursor' = cursor + 1
                   /\ pc' = IF cursor = Len(scatter_tasks) THEN "missing"
                            ELSE "scatter_plot"
                   /\ UNCHANGED error
    /\ UNCHANGED <<arguments, df, table_stats, series_description, correlations, alerts,
                   supported_columns, interval_columns,
                   missing, samples, duplicates, tsindex_description, package,
                   base_description, warnings>>

\* missing_map = get_missing_active(config, table_stats)
MissingActive ==
    /\ pc = "missing"
    /\ trace' = Append(trace, <<"missing">>)
    /\ LET missing_map == get_missing_active(config, table_stats)
       IN  /\ pbar' = add_total(pbar, Len(missing_map))
           /\ pc' = IF missing_map = <<>> THEN "filter_missing" ELSE "missing_diagram"
    /\ cursor' = 1
    /\ missing' = <<>>
    /\ UNCHANGED <<arguments, df, table_stats, series_description, correlations, alerts,
                   error, supported_columns, interval_columns, scatter_matrix,
                   samples, duplicates, tsindex_description, package,
                   base_description, warnings>>

\* one entry of the dict comprehension:
\* progress(get_missing_diagram, ...)(config, df, settings)
MissingDiagram ==
    /\ pc = "missing_diagram"
    /\ LET missing_map == get_missing_active(config, table_stats)
           name == missing_map[cursor]
           r == get_missing_diagram(df, name, diagram_outcome(env, name))
       IN  /\ trace' = Append(trace, <<"missing_diagram", name>>)
           /\ warnings' = warnings \o r.warned
           /\ IF r.exc # None
              THEN /\ pc' = "raised" /\ error' = r.exc
                   /\ UNCHANGED <<missing, pbar, cursor>>
              ELSE /\ missing' = DictSet(missing, name, r.val)
                   /\ pbar' = update(pbar)
                   /\ cursor' = cursor + 1
                   /\ pc' = IF cursor = Len(missing_map) THEN "filter_missing"
                            ELSE "missing_diagram"
                   /\ UNCHANGED error
    /\ UNCHANGED <<arguments, df, table_stats, series_description, correlations, alerts,
                   supported_columns, interval_columns, scatter_matrix,
                   samples, duplicates, tsindex_description, package,
                   base_description>>

FilterMissingThenScatterAgain ==
    /\ pc = "filter_missing"
    /\ missing' = not_none(missing)
    /\ pc' = IF Cardinality({k \in 1..Len(trace) : trace[k] = <<"scatter">>}) < 2
             THEN "scatter" ELSE "sample"
    /\ UNCHANGED <<arguments, df, table_stats, series_description, correlations, alerts,
                   error, pbar, supported_columns, interval_columns, cursor,
                   scatter_matrix, samples, duplicates, tsindex_description, package,
                   base_description, warnings, trace>>

FilterMissing ==
    /\ pc = "filter_missing"
    /\ missing' = not_none(missing)
    /\ pc' = "sample"
    /\ UNCHANGED <<arguments, df, table_stats, series_description, correlations, alerts,
                   error, pbar, supported_columns, interval_columns, cursor,
                   scatter_matrix, samples, duplicates, tsindex_description, package,
                   base_description, warnings, trace>>

SampleReadsProgress ==
    /\ pc = "sample"
    /\ trace' = Append(trace, <<"sample">>)
    /\ IF env.fail["sample"] # None
       THEN /\ pc' = "raised" /\ error' = env.fail["sample"]
            /\ UNCHANGED <<samples, pbar>>
       ELSE /\ samples' = IF pbar.n = 0 THEN NoValue
                           ELSE IF sample = NoValue THEN [rows |-> "head"] ELSE sample
            /\ pbar' = update(pbar)
            /\ pc' = "duplicates" /\ UNCHANGED error
    /\ UNCHANGED <<arguments, df, table_stats, series_description, correlations, alerts,
                   supported_columns, interval_columns, cursor, scatter_matrix,
                   missing, duplicates, tsindex_description, package,
                   base_description, warnings>>

\* samples = get_sample(config, df) or get_custom_sample(sample)
Sample ==
    /\ pc = "sample"
    /\ trace' = Append(trace, <<"sample">>)
    /\ IF env.fail["sample"] # None
       THEN /\ pc' = "raised" /\ error' = env.fail["sample"]
            /\ UNCHANGED <<samples, pbar>>
       ELSE /\ samples' = IF sample = NoValue THEN [rows |-> "head"] ELSE sample
            /\ pbar' = update(pbar)
            /\ pc' = "duplicates" /\ UNCHANGED error
    /\ UNCHANGED <<arguments, df, table_stats, series_description, correlations, alerts,
                   supported_columns, interval_columns, cursor, scatter_matrix,
                   missing, duplicates, tsindex_description, package,
                   base_description, warnings>>

DuplicatesNotMerged ==
    /\ pc = "duplicates"
    /\ trace' = Append(trace, <<"duplicates">>)
    /\ IF env.fail["duplicates"] # None
       THEN /\ pc' = "raised" /\ error' = env.fail["duplicates"]
            /\ UNCHANGED <<duplicates, table_stats, pbar>>
       ELSE LET r == get_duplicates(df, supported_columns, env)
            IN  /\ duplicates' = r.duplicates
                /\ table_stats' = table_stats
                /\ pbar' = update(pbar)
                /\ pc' = "alerts" /\ UNCHANGED error
    /\ UNCHANGED <<arguments, df, series_description, correlations, alerts,
                   supported_columns, interval_columns, cursor, scatter_matrix,
                   missing, samples, tsindex_description, package,
                   base_description, warnings>>

\* metrics, duplicates = progress(get_duplicates, ...)(config, df,
\* supported_columns); table_stats.update(metrics)
Duplicates ==
    /\ pc = "duplicates"
    /\ trace' = Append(trace, <<"duplicates">>)
    /\ IF env.fail["duplicates"] # None
       THEN /\ pc' = "raised" /\ error' = env.fail["duplicates"]
            /\ UNCHANGED <<duplicates, table_stats, pbar>>
       ELSE LET r == get_duplicates(df, supported_columns, env)
            IN  /\ duplicates' = r.duplicates
                /\ table_stats' = r.metrics @@ table_stats
                /\ pbar' = update(pbar)
                /\ pc' = "alerts" /\ UNCHANGED error
    /\ UNCHANGED <<arguments, df, series_description, correlations, alerts,
                   supported_columns, interval_columns, cursor, scatter_matrix,
                   missing, samples, tsindex_description, package,
                   base_description, warnings>>

AlertsSwallowed ==
    /\ pc = "alerts"
    /\ trace' = Append(trace, <<"alerts">>)
    /\ LET r == get_alerts(config, table_stats, series_description, correlations)
       IN  IF r.exc # None
           THEN /\ alerts' = <<>>
                /\ pbar' = update(pbar)
                /\ pc' = "tsindex" /\ UNCHANGED error
           ELSE /\ alerts' = r.val
                /\ pbar' = update(pbar)
                /\ pc' = "tsindex" /\ UNCHANGED error
    /\ UNCHANGED <<arguments, df, table_stats, series_description, correlations,
                   supported_columns, interval_columns, cursor, scatter_matrix,
                   missing, samples, duplicates, tsindex_description, package,
                   base_description, warnings>>

\* alerts = progress(get_alerts, ...)(config, table_stats, series_description,
\* correlations)
Alerts ==
    /\ pc = "alerts"
    /\ trace' = Append(trace, <<"alerts">>)
    /\ LET r == get_alerts(config, table_stats, series_description, correlations)
       IN  IF r.exc # None
           THEN /\ pc' = "raised" /\ error' = r.exc
                /\ UNCHANGED <<alerts, pbar>>
           ELSE /\ alerts' = r.val
                /\ pbar' = update(pbar)
                /\ pc' = "tsindex" /\ UNCHANGED error
    /\ UNCHANGED <<arguments, df, table_stats, series_description, correlations,
                   supported_columns, interval_columns, cursor, scatter_matrix,
                   missing, samples, duplicates, tsindex_description, package,
                   base_description, warnings>>

\* if config.vars.timeseries.active:
\*     tsindex_description = get_time_index_description(config, df, table_stats)
TimeIndex ==
    /\ pc = "tsindex"
    /\ IF config.vars.timeseries.active
       THEN /\ trace' = Append(trace, <<"tsindex">>)
            /\ IF env.fail["tsindex"] # None
               THEN /\ pc' = "raised" /\ error' = env.fail["tsindex"]
                    /\ UNCHANGED tsindex_description
               ELSE /\ tsindex_description' = [n_series |-> table_stats["n_var"]]
                    /\ pc' = "package" /\ UNCHANGED error
       ELSE /\ pc' = "package"
            /\ UNCHANGED <<trace, error, tsindex_description>>
    /\ UNCHANGED <<arguments, df, table_stats, series_description, correlations, alerts,
                   pbar, supported_columns, interval_columns, cursor, scatter_matrix,
                   missing, samples, duplicates, package, base_description, warnings>>

\* package = {version, serialised config}
Package ==
    /\ pc = "package"
    /\ trace' = Append(trace, <<"package">>)
    /\ package' = [ydata_profiling_version |-> "__version__",
                   ydata_profiling_config |-> "config.json()"]
    /\ pbar' = update(pbar)
    /\ pc' = "finalize"
    /\ UNCHANGED <<arguments, df, table_stats, series_description, correlations, alerts,
                   error, supported_columns, interval_columns, cursor, scatter_matrix,
                   missing, samples, duplicates, tsindex_description,
                   base_description, warnings>>

\* description = BaseDescription(...); return description
Finalize ==
    /\ pc = "finalize"
    /\ trace' = Append(trace, <<"finalize">>)
    /\ base_description' =
           [time_index_analysis |->
                IF config.vars.timeseries.active THEN tsindex_description ELSE NoValue,
            table |-> table_stats,
            variables |-> series_description,
            scatter |-> scatter_matrix,
            correlations |-> correlations,
            missing |-> missing,
            alerts |-> alerts,
            package |-> package,
            sample |-> samples,
            duplicates |-> duplicates]
    /\ pc' = "done"
    /\ UNCHANGED <<arguments, df, table_stats, series_description, correlations, alerts,
                   error, pbar, supported_columns, interval_columns, cursor,
                   scatter_matrix, missing, samples, duplicates, tsindex_description,
                   package, warnings>>

\* what a call of describe did: the stages it entered, what it computed, the
\* description it returned or the exception it raised, the warnings it issued
Outcome ==
    [pc |-> pc, error |-> error, trace |-> trace, warnings |-> warnings,
     table_stats |-> table_stats, series_description |-> series_description,
     correlations |-> correlations, scatter_matrix |-> scatter_matrix,
     missing |-> missing, samples |-> samples, duplicates |-> duplicates,
     alerts |-> alerts, tsindex_description |-> tsindex_description,
     package |-> package, base_description |-> base_description]

\* describe is called a second time with the same table, sample and
\* collaborators and with config.progress_bar toggled
DescribeAgain ==
    /\ pc \in {"done", "raised"}
    /\ previous = NoValue
    /\ previous' = [outcome |-> Outcome, pbar |-> pbar]
    /\ config' = [config EXCEPT !.progress_bar = ~@]
    /\ pc' = "validate"
    /\ table_stats' = EmptyDict
    /\ series_description' = <<>>
    /\ correlations' = <<>>
    /\ alerts' = <<>>
    /\ error' = None
    /\ pbar' = NoValue
    /\ supported_columns' = <<>> /\ interval_columns' = <<>> /\ cursor' = 0
    /\ scatter_matrix' = <<>> /\ missing' = <<>> /\ samples' = NoValue
    /\ duplicates' = NoValue /\ tsindex_description' = NoValue
    /\ package' = NoValue /\ base_description' = NoValue
    /\ warnings' = <<>> /\ trace' = <<>>
    /\ UNCHANGED <<df, sample, env, correlated_mapping>>

Next ==
    \/ Validate \/ Preprocess \/ Summarize \/ VariableTypes \/ TableStats
    \/ StartCorrelations \/ CalculateCorrelation \/ FilterCorrelations
    \/ ScatterTasks \/ ScatterPlot
    \/ MissingActive \/ MissingDiagram \/ FilterMissing
    \/ Sample \/ Duplicates \/ Alerts \/ TimeIndex \/ Package \/ Finalize

Spec == Init /\ [][Next]_vars

\* describe called twice on the same input, without and with the progress bar
NextTwice == Next \/ DescribeAgain

SpecTwice == Init /\ [][NextTwice]_vars

(***************************************************************************)
(* SpecCalc: calculate_correlation applied to one method name, whose       *)
(* compute returns or raises, over up to MaxColumns interval columns       *)
(***************************************************************************)
\* a name that is no key of correlation_measures
MethodNames == correlation_measures \cup {"custom"}

\* what a compute can do: return a matrix, an empty matrix or None, or raise
ComputeKinds ==
    {"matrix", "empty", "none",
     "ValueError", "AssertionError", "TypeError", "DataError", "IndexError",
     "KeyError", "ZeroDivisionError", "NotImplementedError"}

CalcInit ==
    /\ pc = "calc_ready"
    /\ \E name \in MethodNames, kind \in ComputeKinds, k \in 0..MaxColumns :
          /\ config = ConfigOf([NominalRun EXCEPT !.methods = <<name>>])
          /\ env = EnvOf([NominalRun EXCEPT !.compute =
                     [m \in correlation_measures |-> IF m = name THEN kind ELSE @[m]]])
          /\ interval_columns = SubSeq(Cols, 1, k)
    /\ df = DfOf(NominalRun)
    /\ sample = NoValue /\ pbar = NoValue
    /\ table_stats = EmptyDict
    /\ series_description = <<>>
    /\ correlations = <<>>
    /\ correlated_mapping = <<>>
    /\ alerts = <<>>
    /\ error = None
    /\ supported_columns = <<>> /\ cursor = 1
    /\ scatter_matrix = <<>> /\ missing = <<>> /\ samples = NoValue
    /\ duplicates = NoValue /\ tsindex_description = NoValue
    /\ package = NoValue /\ base_description = NoValue
    /\ warnings = <<>> /\ trace = <<>> /\ previous = NoValue

\* correlation = calculate_correlation(config, df, correlation_name, summary)
CallCalculateCorrelation ==
    /\ pc = "calc_ready"
    /\ LET correlation_name == config.correlation_keys[cursor]
           r == calculate_correlation(compute_outcomes(env, interval_columns),
                                      correlation_name)
       IN  /\ error' = r.exc
           /\ warnings' = r.warned
           /\ correlations' = IF r.exc = None THEN <<<<correlation_name, r.val>>>>
                              ELSE <<>>
    /\ pc' = "calc_done"
    /\ UNCHANGED <<arguments, df, table_stats, series_description, alerts, pbar,
                   supported_columns, interval_columns, cursor, scatter_matrix,
                   missing, samples, duplicates, tsindex_description, package,
                   base_description, trace>>

CalcNext == CallCalculateCorrelation

SpecCalc == CalcInit /\ [][CalcNext]_vars

(***************************************************************************)
(* Claims about the correlation alerts, stated on the matrices themselves  *)
(***************************************************************************)
\* |x| >= t, stated without the model's helpers
Meets(x, t) == ~x.nan /\ ~t.nan /\ (x.v >= t.v \/ 0 - x.v >= t.v)

\* the columns j # i with |M[i][j]| >= t
PartnersOf(M, t, i) ==
    {M.cols[j] : j \in {j \in 1..Len(M.cols) : j # i /\ Meets(M.values[i][j], t)}}

ColIndex(M, c) == CHOOSE i \in 1..Len(M.cols) : M.cols[i] = c

\* the methods of a correlations dict whose alerts are switched on
Enabled(cfg, corrs) ==
    {k \in 1..Len(corrs) : cfg.correlations[corrs[k][1]].warn_high_correlations}

\* the partners the enabled methods find for column c, all together
UnionPartners(cfg, corrs, c) ==
    UNION {PartnersOf(corrs[k][2], cfg.correlations[corrs[k][1]].threshold,
                      ColIndex(corrs[k][2], c)) : k \in Enabled(cfg, corrs)}

AlertsFor(found, c) == {k \in 1..Len(found) : found[k].column_name = c}

CorrDone == pc = "corr_done" /\ error = None

\* C1: the HIGH_CORRELATION alert of a column lists the union of the partners
\* that the alert-enabled methods find for it.
C1_UnionOfPartners ==
    CorrDone =>
        \A k \in 1..Len(alerts) :
            Range(alerts[k].values.fields)
                = UnionPartners(config, correlations, alerts[k].column_name)

\* the reorderings of a dict
Reorderings(d) ==
    {[k \in 1..Len(d) |-> d[p[k]]] :
        p \in {q \in [1..Len(d) -> 1..Len(d)] :
                  \A i, j \in 1..Len(d) : i # j => q[i] # q[j]}}

PartnerSets(found) ==
    {<<found[k].column_name, Range(found[k].values.fields)>> : k \in 1..Len(found)}

\* C2: the order in which the correlation methods are held does not change
\* the partner set of any column.
C2_OrderIndependent ==
    CorrDone =>
        \A other \in Reorderings(correlations) :
            PartnerSets(check_correlation_alerts(config, other).val)
                = PartnerSets(alerts)

\* C3: exactly one HIGH_CORRELATION alert for each column that an
\* alert-enabled method flags, none for any other column, each with
\* corr = "overall".
C3_OneAlertPerColumn ==
    CorrDone =>
        /\ \A k \in 1..Len(alerts) :
              /\ alerts[k].alert_type = "HIGH_CORRELATION"
              /\ alerts[k].column_name \in Range(Cols)
              /\ alerts[k].values.corr = "overall"
        /\ \A c \in Range(Cols) :
              Cardinality(AlertsFor(alerts, c))
                  = IF UnionPartners(config, correlations, c) # {} THEN 1 ELSE 0

\* two enabled methods flag the same column
C3_Witness ==
    /\ CorrDone
    /\ Len(correlations) = 2
    /\ Enabled(config, correlations) = {1, 2}
    /\ \E c \in Range(Cols) :
          /\ \A k \in {1, 2} :
                PartnersOf(correlations[k][2],
                           config.correlations[correlations[k][1]].threshold,
                           ColIndex(correlations[k][2], c)) # {}
          /\ Cardinality(AlertsFor(alerts, c)) = 1

\* C4: perform_check_correlation(M, t) has as keys exactly the columns with
\* an off-diagonal entry of magnitude >= t, each with exactly those partners;
\* no column is its own partner, whatever the diagonal holds, and the mapping
\* is empty when no off-diagonal entry meets t.
C4_ThresholdCheck ==
    pc = "check_done" =>
        LET M == correlations[1][2]
            t == config.correlations[correlations[1][1]].threshold
            r == correlated_mapping
        IN  /\ Cardinality(KeySet(r)) = Len(r)
            /\ KeySet(r) = {M.cols[i] : i \in {i \in 1..Len(M.cols) :
                                                 PartnersOf(M, t, i) # {}}}
            /\ \A n \in 1..Len(r) :
                  /\ Range(r[n][2]) = PartnersOf(M, t, ColIndex(M, r[n][1]))
                  /\ Cardinality(Range(r[n][2])) = Len(r[n][2])
                  /\ r[n][1] \notin Range(r[n][2])
            /\ ((\A i \in 1..Len(M.cols) : PartnersOf(M, t, i) = {}) => r = <<>>)

\* a matrix with a diagonal entry that is not 1 and meets the threshold in
\* magnitude, and with a flagged column
C4_Witness ==
    /\ pc = "check_done"
    /\ LET M == correlations[1][2]
       IN  /\ \E i \in 1..Len(M.cols) :
                 /\ M.values[i][i] = F(0 - 900)
                 /\ Meets(M.values[i][i], config.correlations["pearson"].threshold)
           /\ correlated_mapping # <<>>

(***************************************************************************)
(* Claims about get_alerts and the column rules                            *)
(***************************************************************************)
\* the alerts of one type, in list order
OfType(found, t) == SelectSeq(found, LAMBDA a : a.alert_type = t)

\* the order of the symbolic names: position by position on the characters,
\* a shorter name before its extensions
NameLeq(s, t) ==
    LET a == NameChars(s)
        b == NameChars(t)
        common == IF Len(a) < Len(b) THEN Len(a) ELSE Len(b)
        differ == {i \in 1..common : a[i] # b[i]}
    IN  IF differ = {}
        THEN Len(a) <= Len(b)
        ELSE LET d == CHOOSE i \in differ : \A j \in differ : i <= j
             IN  Ord(a[d]) < Ord(b[d])

\* C5: the list get_alerts returns is the concatenation of table, column and
\* correlation alerts, sorted by the type's name: names never decrease along
\* the list, and alerts of one type keep the order of the concatenation.
C5_StableSortByTypeName ==
    (pc = "alerts_done" /\ error = None) =>
        LET cat == check_table_alerts(table_stats).val
                     \o variable_alerts(config, series_description).val
                     \o check_correlation_alerts(config, correlations).val
        IN  /\ Len(alerts) = Len(cat)
            /\ \A t \in AlertTypes : OfType(alerts, t) = OfType(cat, t)
            /\ \A k \in 1..(Len(alerts) - 1) :
                  NameLeq(alerts[k].alert_type, alerts[k + 1].alert_type)

\* the sort has moved an alert forward; the list holds a table alert, a
\* correlation alert and two alerts of one type from different columns
C5_Witness ==
    /\ pc = "alerts_done"
    /\ error = None
    /\ \E k \in 1..(Len(alerts) - 1) :
          /\ alerts[k].alert_type = "HIGH_CORRELATION"
          /\ alerts[k + 1].column_name \in {series_description[i][1] :
                                              i \in 1..Len(series_description)}
          /\ alerts[k + 1].alert_type # "HIGH_CORRELATION"
    /\ \E i, j \in 1..Len(alerts) :
          /\ i < j
          /\ alerts[i].alert_type = alerts[j].alert_type
          /\ alerts[i].column_name # alerts[j].column_name
          /\ alerts[i].alert_type # "HIGH_CORRELATION"
    /\ \E k \in 1..Len(alerts) : alerts[k].column_name = None

\* C10: a summary that holds the common keys and lacks some of the
\* type-specific ones never makes check_variable_alerts raise.
C10_MissingKeysNeverRaise ==
    (pc = "var_done" /\ CommonKeys \subseteq DOMAIN series_description[1][2])
        => error = None

(***************************************************************************)
(* Claims about calculate_correlation and the correlation stage of         *)
(* describe, stated on what each compute does                              *)
(***************************************************************************)
CaughtKinds == {"ValueError", "AssertionError", "TypeError", "DataError", "IndexError"}

ReturnKinds == {"matrix", "empty", "none"}

Last(s) == s[Len(s)]

Entered(stage) == <<stage>> \in Range(trace)

CalcName == config.correlation_keys[1]

\* C9 (as claimed): calculate_correlation never raises: whenever the lookup
\* of the method or its compute fails, it returns None after one warning.
C9_NeverRaises ==
    pc = "calc_done" =>
        /\ error = None
        /\ (CalcName \notin correlation_measures \/ env.compute[CalcName] \notin ReturnKinds)
              => correlations = <<<<CalcName, NoValue>>>> /\ Len(warnings) = 1

\* C9 (amended): when compute raises ValueError, AssertionError, TypeError,
\* DataError or IndexError, calculate_correlation returns None after exactly
\* one warning naming the method and the error; when compute returns, the
\* result is the matrix, or None for None and for an empty matrix, and there
\* is no warning; any other exception of compute, and the KeyError of looking
\* up an unknown method name, escapes without a warning.
C9_CaughtKindsBecomeWarnings ==
    pc = "calc_done" =>
        IF CalcName \notin correlation_measures
        THEN error = "KeyError" /\ warnings = <<>>
        ELSE LET kind == env.compute[CalcName]
             IN  CASE kind \in CaughtKinds ->
                        /\ error = None
                        /\ correlations = <<<<CalcName, NoValue>>>>
                        /\ warnings = <<<<"correlation", CalcName, kind>>>>
                   [] kind \in ReturnKinds ->
                        /\ error = None
                        /\ warnings = <<>>
                        /\ correlations =
                               <<<<CalcName,
                                   IF kind = "matrix" /\ interval_columns # <<>>
                                   THEN matrix_over(interval_columns, CalcName)
                                   ELSE NoValue>>>>
                   [] OTHER -> error = kind /\ warnings = <<>>

C9_Witness ==
    /\ pc = "calc_done"
    /\ CalcName = "phi_k"
    /\ env.compute["phi_k"] = "DataError"
    /\ error = None
    /\ warnings # <<>>

Attempted(m) == <<"calculate_correlation", m>> \in Range(trace)

ComputeFails(m) == m \notin correlation_measures \/ env.compute[m] \notin ReturnKinds

CaughtFailure(m) == m \in correlation_measures /\ env.compute[m] \in CaughtKinds

AbortedBy(m) == pc = "raised" /\ Last(trace) = <<"calculate_correlation", m>>

\* every other active method whose compute returned a non-empty matrix is in
\* corrs with that matrix
OthersKept(m, corrs) ==
    \A o \in Range(config.correlation_keys) \ {m} :
        /\ config.correlations[o].calculate
        /\ o \in correlation_measures
        /\ env.compute[o] = "matrix"
        /\ interval_columns # <<>>
        => /\ HasKey(corrs, o)
           /\ Lookup(corrs, o) = matrix_over(interval_columns, o)

\* C8 (as claimed): when the computation of an active method fails inside
\* calculate_correlation, describe is not aborted by it, and the returned
\* description lacks that method and holds every other active method whose
\* compute returned a non-empty matrix, unchanged.
C8_FailureNeverAborts ==
    \A m \in Range(config.correlation_keys) :
        Attempted(m) /\ ComputeFails(m) =>
            /\ ~AbortedBy(m)
            /\ pc = "done" =>
                  /\ ~HasKey(base_description.correlations, m)
                  /\ OthersKept(m, base_description.correlations)

\* C8 (amended): when the compute of an active method raises one of the five
\* caught kinds, describe is not aborted by it, a warning naming the method
\* is issued, and from the scatter stage on the correlations lack that
\* method and hold every other active method whose compute returned a
\* non-empty matrix, unchanged; the returned description holds the same
\* correlations.  Any other failure of an attempted method aborts describe.
C8_CaughtFailureOmitted ==
    \A m \in Range(config.correlation_keys) :
        /\ Attempted(m) /\ CaughtFailure(m) =>
              /\ ~AbortedBy(m)
              /\ <<"correlation", m, env.compute[m]>> \in Range(warnings)
              /\ Entered("scatter") =>
                    ~HasKey(correlations, m) /\ OthersKept(m, correlations)
              /\ pc = "done" => base_description.correlations = correlations
        /\ Attempted(m) /\ ComputeFails(m) /\ ~CaughtFailure(m) => AbortedBy(m)

C8_Witness ==
    /\ pc = "done"
    /\ Attempted("phi_k")
    /\ env.compute["phi_k"] = "ValueError"
    /\ HasKey(base_description.correlations, "pearson")
    /\ ~HasKey(base_description.correlations, "phi_k")

(***************************************************************************)
(* Claims about the alerts of a run of describe                            *)
(***************************************************************************)
\* get_alerts has returned in this run
AlertsComputed == Entered("alerts") /\ ~(pc = "raised" /\ Last(trace) = <<"alerts">>)

EmptyAlerts == {k \in 1..Len(alerts) : alerts[k].alert_type = "EMPTY"}

\* C7 (as claimed): for a table of no rows the alerts hold exactly one EMPTY
\* alert and no alert with a column name.
C7_EmptyTableNoColumnAlert ==
    AlertsComputed /\ df.n = 0 =>
        /\ Cardinality(EmptyAlerts) = 1
        /\ \A k \in 1..Len(alerts) : alerts[k].column_name = None

\* C7 (amended): for a table of no rows no correlation is computed and the
\* alerts hold exactly one EMPTY alert, which is the only alert without a
\* column name; every column of a supported type (its n_distinct and n are
\* both 0) has exactly one alert, UNIQUE, and every Unsupported column has
\* exactly the two alerts UNSUPPORTED and REJECTED.
C7_EmptyTableAlerts ==
    AlertsComputed /\ df.n = 0 =>
        /\ correlations = <<>>
        /\ Cardinality(EmptyAlerts) = 1
        /\ \A k \in 1..Len(alerts) :
              IF alerts[k].column_name = None
              THEN alerts[k].alert_type = "EMPTY"
              ELSE alerts[k].column_name \in Range(df.columns)
        /\ \A i \in 1..Len(df.columns) :
              LET mine == AlertsFor(alerts, df.columns[i])
                  expected == IF env.types[i] = "Unsupported"
                              THEN {"UNSUPPORTED", "REJECTED"}
                              ELSE {"UNIQUE"}
              IN  /\ {alerts[k].alert_type : k \in mine} = expected
                  /\ Cardinality(mine) = Cardinality(expected)

C7_Witness ==
    /\ pc = "done"
    /\ df.n = 0
    /\ \E k \in 1..Len(alerts) : alerts[k].alert_type = "UNIQUE"
    /\ \E k \in 1..Len(alerts) : alerts[k].alert_type = "UNSUPPORTED"

(***************************************************************************)
(* Claims about the rules of one column, stated on its summary             *)
(***************************************************************************)
\* the summary check_variable_alerts was given
Summary == series_description[1][2]

\* the number of alerts of type t in the list returned
NumberOf(t) == Cardinality({k \in 1..Len(alerts) : alerts[k].alert_type = t})

\* 1 if the condition holds, else 0
Once(cond) == IF cond THEN 1 ELSE 0

\* a defined value above 0.01
AboveCutoff(x) == ~x.nan /\ x.v > 10

\* whenever check_variable_alerts returns, the list holds one MISSING alert
\* if p_missing is above the cutoff, and none otherwise
MissingRuleWhenReturned ==
    (pc = "var_done" /\ error = None) =>
        NumberOf("MISSING") = Once(AboveCutoff(Summary["p_missing"]))

\* C11: for a column of any type, check_variable_alerts emits exactly one
\* MISSING alert if p_missing is defined and above 0.01, and none otherwise.
C11_MissingIffAboveCutoff ==
    pc = "var_done" => NumberOf("MISSING") = Once(AboveCutoff(Summary["p_missing"]))

\* summary.get("n_distinct", np.nan) == k
DistinctIs(k) == "n_distinct" \in DOMAIN Summary /\ Eq(Summary["n_distinct"], k)

\* whenever check_variable_alerts returns for a column of a supported type,
\* UNIQUE is emitted once iff n_distinct equals n and CONSTANT once iff
\* n_distinct is 1
SupportedRulesWhenReturned ==
    (pc = "var_done" /\ error = None /\ Summary["type"] # "Unsupported") =>
        /\ NumberOf("UNIQUE") = Once(DistinctIs(Summary["n"]))
        /\ NumberOf("CONSTANT") = Once(DistinctIs(N(1)))

\* C12: for a summary with n_distinct = 1, check_variable_alerts emits one
\* CONSTANT alert, and it emits UNIQUE as well only when n = 1.
C12_ConstantNotUnique ==
    (pc = "var_done" /\ DistinctIs(N(1))) =>
        /\ NumberOf("CONSTANT") = 1
        /\ NumberOf("UNIQUE") = Once(Eq(Summary["n"], N(1)))

\* C13: for a column whose type is not Unsupported, check_variable_alerts
\* emits UNIQUE iff n_distinct is present and equals n (n = n_distinct = 0
\* included) and CONSTANT iff n_distinct is 1, whatever the rules of the
\* type do.
C13_UniqueAndConstant ==
    (pc = "var_done" /\ Summary["type"] # "Unsupported") =>
        /\ NumberOf("UNIQUE") = Once(DistinctIs(Summary["n"]))
        /\ NumberOf("CONSTANT") = Once(DistinctIs(N(1)))

\* C14: for a column of type Unsupported, check_variable_alerts returns one
\* UNSUPPORTED and one REJECTED alert whatever else the summary holds, and
\* beside them at most the MISSING alert of the generic rule: no UNIQUE, no
\* CONSTANT and no alert of a type-specific rule.
C14_UnsupportedAndRejected ==
    (pc = "var_done" /\ Summary["type"] = "Unsupported") =>
        /\ error = None
        /\ NumberOf("UNSUPPORTED") = 1
        /\ NumberOf("REJECTED") = 1
        /\ Len(alerts) = 2 + Once(AboveCutoff(Summary["p_missing"]))
        /\ \A k \in 1..Len(alerts) :
              alerts[k].alert_type \in {"UNSUPPORTED", "REJECTED", "MISSING"}

\* an Unsupported column whose summary would fire UNIQUE and CONSTANT on a
\* supported type
C14_Witness ==
    /\ pc = "var_done"
    /\ Summary["type"] = "Unsupported"
    /\ DistinctIs(N(1))
    /\ Eq(Summary["n"], N(1))
    /\ NumberOf("UNSUPPORTED") = 1
    /\ NumberOf("REJECTED") = 1

\* C15: every alert check_variable_alerts(config, col, description) returns,
\* whichever rule built it and with or without values, has column_name = col
\* and values = description, the full summary of the column.
C15_BackfillEveryAlert ==
    (pc = "var_done" /\ error = None) =>
        \A k \in 1..Len(alerts) :
            /\ alerts[k].column_name = series_description[1][1]
            /\ alerts[k].values = Summary

\* the list holds an alert built without values (UNIFORM) and one built with
\* the summary (CONSTANT)
C15_Witness ==
    /\ pc = "var_done"
    /\ error = None
    /\ NumberOf("UNIFORM") = 1
    /\ NumberOf("CONSTANT") = 1

\* C16: check_table_alerts emits DUPLICATES exactly when n_duplicates is
\* present, defined and above the cutoff, and EMPTY exactly when n = 0;
\* neither suppresses the other, and both have no column_name.
C16_DuplicatesAndEmpty ==
    pc = "table_done" =>
        /\ error = None
        /\ NumberOf("DUPLICATES")
              = Once("n_duplicates" \in DOMAIN table_stats
                     /\ AboveCutoff(table_stats["n_duplicates"]))
        /\ NumberOf("EMPTY") = Once(Eq(table_stats["n"], N(0)))
        /\ Len(alerts) = NumberOf("DUPLICATES") + NumberOf("EMPTY")
        /\ \A k \in 1..Len(alerts) : alerts[k].column_name = None

\* both conditions hold and both alerts are in the list
C16_Witness ==
    /\ pc = "table_done"
    /\ "n_duplicates" \in DOMAIN table_stats
    /\ AboveCutoff(table_stats["n_duplicates"])
    /\ Eq(table_stats["n"], N(0))
    /\ NumberOf("DUPLICATES") = 1
    /\ NumberOf("EMPTY") = 1


\* ---- Claims about the order of the stages of describe ----
StageNames ==
    <<"validate", "preprocess", "summarize", "table_stats", "correlations",
      "scatter", "missing", "sample", "duplicates", "alerts", "tsindex",
      "package", "finalize">>

\* the stages of this run: the time-index analysis only when it is active
StageOrder ==
    SelectSeq(StageNames,
              LAMBDA s : s # "tsindex" \/ config.vars.timeseries.active)

IsStage(e) == \E i \in 1..Len(StageNames) : StageNames[i] = e[1]

\* the stage a step inside a stage belongs to
StageOfStep(e) ==
    CASE e[1] = "variables" -> "summarize"
      [] e[1] = "calculate_correlation" -> "correlations"
      [] e[1] = "scatter_plot" -> "scatter"
      [] e[1] = "missing_diagram" -> "missing"
      [] OTHER -> e[1]

\* the stages entered so far, in the order they were entered
Started ==
    LET starts == SelectSeq(trace, IsStage)
    IN  [k \in 1..Len(starts) |-> starts[k][1]]

StartedBefore(k) == Cardinality({i \in 1..k : IsStage(trace[i])})

IsPrefix(s, t) == Len(s) <= Len(t) /\ SubSeq(t, 1, Len(s)) = s

\* C17: the stages of describe are entered in the fixed order validate,
\* preprocess, summarize, table stats, correlations, scatter, missing, sample,
\* duplicates, alerts, (time index when active), package, finalize: the stages
\* entered so far are always a prefix of that order (none twice, none skipped,
\* never back to an earlier one), every step inside a stage runs before the
\* next stage is entered, and a run that returns has entered them all.
C17_StagesInFixedOrder ==
    /\ IsPrefix(Started, StageOrder)
    /\ \A k \in 1..Len(trace) :
          StageOrder[StartedBefore(k)] = StageOfStep(trace[k])
    /\ pc = "done" => Started = StageOrder

\* a run that returns, with the time-index analysis and with steps inside the
\* correlations, scatter and missing stages
C17_Witness ==
    /\ pc = "done"
    /\ config.vars.timeseries.active
    /\ \E k \in 1..Len(trace) : trace[k][1] = "calculate_correlation"
    /\ \E k \in 1..Len(trace) : trace[k][1] = "scatter_plot"
    /\ \E k \in 1..Len(trace) : trace[k][1] = "missing_diagram"


\* ---- Claims about describe called with and without the progress bar ----
\* C18: describe called again on the same table, sample, config and
\* collaborators with only config.progress_bar toggled enters the same stages
\* and, when it ends, has produced the same table statistics, summaries,
\* correlations, scatter plots, missing diagrams, sample, duplicates and
\* alerts, returned the same description or raised the same exception, and
\* issued the same warnings.
C18_ProgressBarChangesNothing ==
    previous # NoValue =>
        /\ IsPrefix(trace, previous.outcome.trace)
        /\ pc \in {"done", "raised"} => Outcome = previous.outcome

\* both calls have returned; one counted its tasks on the bar, the other did
\* not; correlations, scatter plots and alerts were produced
C18_Witness ==
    /\ previous # NoValue
    /\ pc = "done"
    /\ pbar.disable # previous.pbar.disable
    /\ pbar.n # previous.pbar.n
    /\ correlations # <<>>
    /\ scatter_matrix # <<>>
    /\ alerts # <<>>


\* ---- Claims about the correlations stage of describe ----
Invocations(m) ==
    Cardinality({k \in 1..Len(trace) : trace[k] = <<"calculate_correlation", m>>})

Invoked == {trace[k][2] : k \in {i \in 1..Len(trace) : trace[i][1] = "calculate_correlation"}}

Configured == Range(config.correlation_keys)

Ended == pc \in {"done", "raised"}

\* C19 (as claimed): in a run of describe that got to the correlations stage,
\* with n = 0 no method is invoked and the correlations are empty; with
\* n # 0 calculate_correlation is invoked exactly once for each configured
\* method whose calculate flag is set and for no other method.
C19_EachActiveMethodOnce ==
    (Ended /\ Entered("correlations")) =>
        IF Eq(table_stats["n"], N(0))
        THEN Invoked = {} /\ correlations = <<>>
        ELSE /\ Invoked \subseteq Configured
             /\ \A m \in Configured :
                   Invocations(m) = Once(config.correlations[m].calculate)

\* C19 (amended): with n = 0 no method is invoked and the correlations stay
\* empty up to the description returned; with n # 0 only configured methods
\* whose calculate flag is set are invoked, none more than once, and each of
\* them exactly once in every run that gets to the scatter stage, i.e. unless
\* an invocation raises out of describe.
C19_ActiveMethodsUntilFailure ==
    Entered("correlations") =>
        IF Eq(table_stats["n"], N(0))
        THEN /\ Invoked = {}
             /\ correlations = <<>>
             /\ pc = "done" => base_description.correlations = <<>>
        ELSE /\ Invoked \subseteq Configured
             /\ \A m \in Configured :
                   /\ Invocations(m) <= Once(config.correlations[m].calculate)
                   /\ Entered("scatter") =>
                         Invocations(m) = Once(config.correlations[m].calculate)

\* a run on a non-empty table that returned, with one method invoked and
\* another one, whose flag is not set, not invoked
C19_Witness ==
    /\ pc = "done"
    /\ ~Eq(table_stats["n"], N(0))
    /\ \E m \in Configured : config.correlations[m].calculate /\ Invocations(m) = 1
    /\ \E m \in Configured : ~config.correlations[m].calculate /\ Invocations(m) = 0


\* ---- Claims about the missing-diagram stage of describe ----
Rendered(name) ==
    /\ <<"missing_diagram", name>> \in Range(trace)
    /\ df.n # 0

RenderingFails(name) == Rendered(name) /\ env.diagram[name] = "ValueError"

ActiveDiagrams == Range(get_missing_active(config, table_stats))

\* no other active diagram raises an exception of another kind
OthersDoNotAbort(name) ==
    \A o \in ActiveDiagrams \ {name} : env.diagram[o] \in {"plot", "none", "ValueError"}

AbortedByDiagram(name) ==
    pc = "raised" /\ Last(trace) = <<"missing_diagram", name>>

InMissingStage == pc \in {"missing_diagram", "filter_missing"}

\* describe is about to take the sample or has got to taking it
AtSample == pc = "sample" \/ Entered("sample")

\* C20: when the rendering of a missing diagram raises ValueError, one warning
\* naming the diagram is issued and describe is not aborted by it; once the
\* stage is over the diagram's name is not a key of the missing mapping, nor
\* of the one in the description returned; every other active diagram whose
\* rendering returns a plot is rendered and present with that plot; and
\* unless another diagram raises an exception of another kind, describe goes
\* on to the sample stage.
C20_FailedDiagramOmitted ==
    \A name \in Range(missing_names) :
        RenderingFails(name) =>
            /\ Cardinality({k \in 1..Len(warnings) :
                   warnings[k] = warn_missing(settings_name(name), "ValueError")}) = 1
            /\ ~AbortedByDiagram(name)
            /\ AtSample => ~HasKey(missing, name)
            /\ pc = "done" => ~HasKey(base_description.missing, name)
            /\ OthersDoNotAbort(name) =>
                  /\ ~InMissingStage => AtSample
                  /\ \A o \in ActiveDiagrams \ {name} :
                        (AtSample /\ env.diagram[o] = "plot") =>
                            /\ Rendered(o)
                            /\ HasKey(missing, o)
                            /\ Lookup(missing, o).matrix = Plot(o)

\* the bar diagram failed with ValueError, the matrix diagram is in the
\* description returned
C20_Witness ==
    /\ pc = "done"
    /\ RenderingFails("bar")
    /\ ~HasKey(base_description.missing, "bar")
    /\ HasKey(base_description.missing, "matrix")
    /\ warnings # <<>>


\* ---- Claims about the scatter stage of describe ----
PlotFails(x, y) ==
    /\ env.plot # None
    /\ get_scatter_tasks(config, interval_columns) # <<>>
    /\ get_scatter_tasks(config, interval_columns)[1] = <<x, y>>
    /\ <<"scatter_plot", x, y>> \in Range(trace)

PlottedPairs ==
    {<<trace[k][2], trace[k][3]>> :
        k \in {i \in 1..Len(trace) : trace[i][1] = "scatter_plot"}}

\* C21 (as claimed): when the rendering of the scatter plot of a pair (x, y)
\* raises, describe is not aborted by it; once the stage is over the pair has
\* no plot and every other pair has been processed.
C21_ScatterFailureCaught ==
    \A x, y \in Range(Cols) :
        PlotFails(x, y) =>
            /\ ~(pc = "raised" /\ Last(trace) = <<"scatter_plot", x, y>>)
            /\ (pc = "missing" \/ Entered("missing")) =>
                  /\ Lookup(Lookup(scatter_matrix, x), y) = NoValue
                  /\ PlottedPairs = Range(get_scatter_tasks(config, interval_columns))


\* ---- Claims about the mappings of the description returned ----
NoneFree(d) == \A i \in 1..Len(d) : d[i][2] # NoValue

\* the sub-task of a configured method returned None: compute returned None
\* or an empty matrix, or raised an exception calculate_correlation catches
CorrelationIsNone(m) ==
    /\ m \in Configured \cap correlation_measures
    /\ env.compute[m] \in {"none", "empty"} \cup CaughtKinds

\* the sub-task of a diagram returned None: the table is empty, or the
\* rendering returned None or raised ValueError
DiagramIsNone(name) == df.n = 0 \/ env.diagram[name] \in {"none", "ValueError"}

\* C22: the correlations and the missing mapping of every description
\* describe returns have no None value; a method or a diagram whose sub-task
\* returned None is not a key of them; and the correlations get_alerts is
\* called with have no None value.
C22_NoNonePlaceholders ==
    /\ pc = "done" =>
          /\ NoneFree(base_description.correlations)
          /\ NoneFree(base_description.missing)
          /\ \A m \in Configured :
                CorrelationIsNone(m) => ~HasKey(base_description.correlations, m)
          /\ \A name \in Range(missing_names) :
                DiagramIsNone(name) => ~HasKey(base_description.missing, name)
    /\ (pc = "alerts" \/ Entered("alerts")) => NoneFree(correlations)

\* a description was returned after a method and a diagram had returned None
\* and others had not
C22_Witness ==
    /\ pc = "done"
    /\ \E m \in Configured : CorrelationIsNone(m) /\ Attempted(m)
    /\ \E name \in Range(missing_names) : DiagramIsNone(name) /\ Rendered(name)
    /\ base_description.correlations # <<>>
    /\ base_description.missing # <<>>


\* ---- Claims about the failure of a stage of describe ----
\* the exception the alert engine raises in this run: a Numeric summary
\* without skewness makes numeric_alerts raise KeyError
AlertsFailure ==
    IF df # NoValue
       /\ \E i \in 1..Len(df.columns) :
             i \in env.no_skewness /\ env.types[i] = "Numeric"
    THEN "KeyError" ELSE None

\* the exception the stage raises in this run, or None
StageFailure(stage) ==
    CASE stage = "validate" -> IF df = NoValue THEN "ValueError" ELSE None
      [] stage = "alerts" -> AlertsFailure
      [] OTHER -> env.fail[stage]

RequiredStages ==
    {"validate", "preprocess", "summarize", "table_stats", "sample", "duplicates",
     "alerts", "tsindex"}

\* C23: when a required stage of describe raises (no dataset, the summaries,
\* the table statistics, the duplicates, the alert engine, ...), describe
\* ends with that same exception, the failing stage is the last one entered
\* and no description is produced.
C23_RequiredFailurePropagates ==
    \A stage \in RequiredStages :
        (Entered(stage) /\ StageFailure(stage) # None) =>
            /\ pc = "raised"
            /\ error = StageFailure(stage)
            /\ Last(trace) = <<stage>>
            /\ base_description = NoValue

\* the alert engine raised KeyError and describe ended with it
C23_Witness ==
    /\ Entered("alerts")
    /\ AlertsFailure = "KeyError"
    /\ pc = "raised"
    /\ error = "KeyError"
    /\ base_description = NoValue


\* ---- Claims about the duplicates stage of describe ----
\* the columns of the table whose type is not Unsupported, in table order
NotUnsupported ==
    LET keep == {i \in 1..Len(df.columns) : env.types[i] # "Unsupported"}
        nth(k) == CHOOSE i \in keep : Cardinality({j \in keep : j < i}) = k - 1
    IN  [k \in 1..Cardinality(keep) |-> df.columns[nth(k)]]

DuplicatesComputed == Entered("duplicates") /\ duplicates # NoValue

\* C24: the duplicates are computed over exactly the columns whose type is
\* not Unsupported; from then on table_stats holds their count; the alert
\* engine, which runs after, emits DUPLICATES exactly when that count is above
\* the cutoff, with the merged table_stats as values; and the description
\* returned holds the merged table_stats and the duplicates.
C24_DuplicatesMergedBeforeAlerts ==
    /\ DuplicatesComputed =>
          /\ duplicates.columns = NotUnsupported
          /\ "n_duplicates" \in DOMAIN table_stats
          /\ table_stats["n_duplicates"] = N(duplicates.rows)
    /\ AlertsComputed =>
          /\ DuplicatesComputed
          /\ NumberOf("DUPLICATES") = Once(duplicates.rows > 0)
          /\ \A k \in 1..Len(alerts) :
                alerts[k].alert_type = "DUPLICATES" => alerts[k].values = table_stats
    /\ pc = "done" =>
          /\ base_description.table = table_stats
          /\ base_description.duplicates = duplicates

\* a description was returned for a table with an Unsupported column and a
\* duplicate row, with the DUPLICATES alert
C24_Witness ==
    /\ pc = "done"
    /\ \E i \in 1..Len(df.columns) : env.types[i] = "Unsupported"
    /\ duplicates.columns # <<>>
    /\ duplicates.rows = 1
    /\ NumberOf("DUPLICATES") = 1


\* ---- Claims about the methods check_correlation_alerts looks at ----
\* the correlations dict without the methods whose alerts are switched off
WithoutDisabled(cfg, corrs) ==
    SelectSeq(corrs, LAMBDA item : cfg.correlations[item[1]].warn_high_correlations)

\* the partners method k of the dict finds for column c at its own threshold
OwnPartners(cfg, corrs, k, c) ==
    PartnersOf(corrs[k][2], cfg.correlations[corrs[k][1]].threshold,
               ColIndex(corrs[k][2], c))

\* C25: a method whose warn_high_correlations flag is off contributes nothing:
\* the alerts are those check_correlation_alerts gives for the dict without
\* the matrices of such methods, and the partners of every alert are the ones
\* an enabled method finds for the column at that method's own threshold.
C25_DisabledMethodsIgnored ==
    CorrDone =>
        /\ alerts = check_correlation_alerts(config,
                        WithoutDisabled(config, correlations)).val
        /\ \A k \in 1..Len(alerts) :
              \E m \in Enabled(config, correlations) :
                  /\ OwnPartners(config, correlations, m, alerts[k].column_name) # {}
                  /\ Range(alerts[k].values.fields)
                        = OwnPartners(config, correlations, m, alerts[k].column_name)

\* a disabled method finds partners for a column that has no alert, and an
\* enabled method gives an alert to another column
C25_Witness ==
    /\ CorrDone
    /\ alerts # <<>>
    /\ \E k \in (1..Len(correlations)) \ Enabled(config, correlations) :
          \E c \in Range(Cols) :
              /\ OwnPartners(config, correlations, k, c) # {}
              /\ AlertsFor(alerts, c) = {}


\* ---- Claims about the rules of one type ----
CountOf(found, t) == Cardinality({k \in 1..Len(found) : found[k].alert_type = t})

NumericRuleTypes == {"SKEWED", "INFINITE", "ZEROS", "UNIFORM"}

FlagIs(key, b) == key \in DOMAIN Summary /\ Summary[key] = b

\* what C26 claims of a TimeSeries summary on which the Numeric rules
\* return: their alerts, NON_STATIONARY iff stationary is false and SEASONAL
\* iff seasonal is true
TimeSeriesRules ==
    /\ \A t \in NumericRuleTypes :
          NumberOf(t) = CountOf(numeric_alerts(config, Summary).val, t)
    /\ NumberOf("NON_STATIONARY") = Once(FlagIs("stationary", FALSE))
    /\ NumberOf("SEASONAL") = Once(FlagIs("seasonal", TRUE))

NumericRulesReturn == numeric_alerts(config, Summary).exc = None

TimeSeriesRulesWhenReturned ==
    (pc = "var_done" /\ error = None /\ Summary["type"] = "TimeSeries") =>
        TimeSeriesRules

NumericNeverSeasonalWhenReturned ==
    (pc = "var_done" /\ Summary["type"] = "Numeric") =>
        NumberOf("NON_STATIONARY") = 0 /\ NumberOf("SEASONAL") = 0

\* C26: for a TimeSeries summary the alerts of the type-specific rules are
\* those the Numeric rules emit for it, plus NON_STATIONARY iff the stationary
\* flag is false and SEASONAL iff the seasonal flag is true; a Numeric summary
\* gets neither NON_STATIONARY nor SEASONAL.
C26_TimeSeriesIsNumericPlusFlags ==
    /\ (pc = "var_done" /\ Summary["type"] = "TimeSeries" /\ NumericRulesReturn) =>
          TimeSeriesRules
    /\ (pc = "var_done" /\ Summary["type"] = "Numeric") =>
          NumberOf("NON_STATIONARY") = 0 /\ NumberOf("SEASONAL") = 0


LengthsPresent == {"min_length", "max_length"} \subseteq DOMAIN Summary

ConstantLengthWithComposition ==
    (pc = "var_done" /\ error = None /\ Summary["type"] = "Categorical"
        /\ "composition" \in DOMAIN Summary) =>
        NumberOf("CONSTANT_LENGTH") = Once(Eq(Summary["min_length"], Summary["max_length"]))

\* C27: for a Categorical summary that holds min_length and max_length, one
\* CONSTANT_LENGTH alert is emitted when the two are equal and none when they
\* differ.
C27_ConstantLength ==
    (pc = "var_done" /\ Summary["type"] = "Categorical" /\ LengthsPresent) =>
        NumberOf("CONSTANT_LENGTH") = Once(Eq(Summary["min_length"], Summary["max_length"]))


Steps(kind) == Cardinality({k \in 1..Len(trace) : trace[k][1] = kind})

\* C29: the bar never counts more updates than its total; when describe
\* returns the total is 5 + one per column + 1 for the types + one per
\* correlation method attempted + one per scatter pair + one per active
\* missing diagram, and a bar that is not disabled has counted exactly that
\* many updates, also when the correlations were skipped because n = 0.
C29_ProgressBalanced ==
    /\ pbar # NoValue => pbar.n <= pbar.total
    /\ pc = "done" =>
          /\ pbar.total = 5 + Len(df.columns) + 1 + Steps("calculate_correlation")
                            + Steps("scatter_plot") + Steps("missing_diagram")
          /\ ~pbar.disable => pbar.n = pbar.total

\* describe returned for a table without rows: no method was attempted, the
\* enabled bar counted the columns, the scatter pairs and the diagrams
C29_Witness ==
    /\ pc = "done"
    /\ ~pbar.disable
    /\ Eq(table_stats["n"], N(0))
    /\ Steps("calculate_correlation") = 0
    /\ Steps("scatter_plot") > 0
    /\ Steps("missing_diagram") > 0
    /\ pbar.n = pbar.total


\* ---- Claims about the partner list of a HIGH_CORRELATION alert ----
\* C30: every HIGH_CORRELATION alert check_correlation_alerts returns has at
\* least one partner in values["fields"], its own column is not among them,
\* and so values["fields"][0] is a column other than its own.
C30_PartnersNonEmptyNotSelf ==
    CorrDone =>
        \A k \in 1..Len(alerts) :
            alerts[k].alert_type = "HIGH_CORRELATION" =>
                /\ Len(alerts[k].values.fields) >= 1
                /\ alerts[k].column_name \notin Range(alerts[k].values.fields)
                /\ alerts[k].values.fields[1] \in Range(Cols) \ {alerts[k].column_name}

\* an alert with two partners, from a matrix whose diagonal meets the
\* threshold
C30_Witness ==
    /\ CorrDone
    /\ \E k \in 1..Len(alerts) :
          /\ Len(alerts[k].values.fields) = 2
          /\ \E m \in Enabled(config, correlations) :
                LET M == correlations[m][2]
                    i == ColIndex(M, alerts[k].column_name)
                IN  Meets(M.values[i][i], config.correlations[correlations[m][1]].threshold)

====
